---- MODULE Spec2Model ----
(***************************************************************************)
(* A model of the monty execution core: the reference-counted arena heap   *)
(* (src/src/heap.rs), the tuple type (crates/monty/src/types/tuple.rs),    *)
(* the position tracker (crates/monty/src/position.rs) and the frame that  *)
(* executes a block of nodes (src/src/run.rs).                             *)
(***************************************************************************)
EXTENDS Integers, Sequences, FiniteSets, TLC

VARIABLES
    objects,    \* Heap.objects: Vec<Option<HeapObject>>; slot id is objects[id + 1]
    roots,      \* the Values held by live locations outside the heap (namespace / stack)
    last,       \* the last operation performed and what it returned
    hist,       \* history of the calls made on each id since the last clear()
    tracker,    \* the PositionTracker: stack, clause_state, incr
    run         \* the program being run and how far the run has come

vars == <<objects, roots, last, hist, tracker, run>>

(***************************************************************************)
(* Bounds of the model.                                                    *)
(***************************************************************************)
\* arena length explored under the heap API specification
MaxArena == 2
\* inc_ref / dec_ref calls counted per id under the heap API specification
MaxCalls == 2
\* arena length explored when tuples are built, copied and dropped
MaxObjects == 3
\* number of live locations outside the heap
MaxRoots == 3
\* longest tuple built
MaxTupleLen == 2
\* largest repetition count offered to x * n
MaxCount == 2
\* the memory limit, in units of one Value (a heap object's header counts one)
MaxMemory == 5
\* refcounts are followed up to this value when a failing operation leaks them
MaxRefcount == 4

(***************************************************************************)
(* Values and heap data.                                                   *)
(***************************************************************************)
VInt(i) == [tag |-> "Int", v |-> i]
VRef(id) == [tag |-> "Ref", v |-> id]
VNone == [tag |-> "None", v |-> 0]
VBool(b) == [tag |-> "Bool", v |-> IF b THEN 1 ELSE 0]
\* Object::Str, a string known by the number of its characters
VStr(n) == [tag |-> "Str", v |-> n]

IsRef(v) == v.tag = "Ref"

\* HeapData payloads share one record shape: str is the text of a Str, items the
\* elements of a List or Tuple, contains_refs the flag a Tuple carries
\* HeapData::Str
StrData == [kind |-> "Str", str |-> "hello", items |-> <<>>, contains_refs |-> FALSE]
\* HeapData::List
ListData(items) == [kind |-> "List", str |-> "", items |-> items, contains_refs |-> FALSE]

\* Tuple::new: contains_refs is computed from the items with any()
TupleNewFirstOnly(vec) ==
    [kind |-> "Tuple", str |-> "", items |-> vec,
     contains_refs |-> (Len(vec) > 0 /\ IsRef(vec[1]))]
TupleNew(vec) ==
    [kind |-> "Tuple", str |-> "", items |-> vec,
     contains_refs |-> (\E i \in 1..Len(vec) : IsRef(vec[i]))]

\* FromIterator<Value> for Tuple: Self::new(iter.into_iter().collect())
TupleFromIter(iter) == TupleNew(iter)

\* Option<HeapObject>: None is <<>>, Some(o) is <<o>>
None == <<>>
Some(o) == <<o>>
HeapObject(rc, data) == [refcount |-> rc, data |-> data]

\* self.objects.get(id): Some(slot) exactly when id is inside the Vec
InBounds(objs, id) == id >= 0 /\ id < Len(objs)
\* Some(Some(object)) = self.objects.get(id)
Occupied(objs, id) == InBounds(objs, id) /\ objs[id + 1] # None
Entry(objs, id) == objs[id + 1][1]
Refcount(objs, id) == Entry(objs, id).refcount

(***************************************************************************)
(* Heap operations (src/src/heap.rs).                                      *)
(***************************************************************************)
\* Heap::new
HeapNew == <<>>

\* Heap::allocate: the id is the current length, the slot is pushed with refcount 1
AllocateReuse(objs, data) ==
    LET free == {i \in 0..(Len(objs) - 1) : objs[i + 1] = None}
        id == IF free = {} THEN Len(objs) ELSE CHOOSE i \in free : \A j \in free : i <= j
    IN  [id |-> id,
         objects |-> IF free = {} THEN Append(objs, Some(HeapObject(1, data)))
                     ELSE [objs EXCEPT ![id + 1] = Some(HeapObject(1, data))]]
allocate(objs, data) ==
    [id |-> Len(objs), objects |-> Append(objs, Some(HeapObject(1, data)))]

\* Heap::inc_ref
IncRefRevive(objs, id) ==
    IF Occupied(objs, id)
    THEN [objs EXCEPT ![id + 1] = Some([Entry(objs, id) EXCEPT !.refcount = @ + 1])]
    ELSE IF InBounds(objs, id)
         THEN [objs EXCEPT ![id + 1] = Some(HeapObject(1, StrData))]
         ELSE objs
inc_ref(objs, id) ==
    IF Occupied(objs, id)
    THEN [objs EXCEPT ![id + 1] = Some([Entry(objs, id) EXCEPT !.refcount = @ + 1])]
    ELSE objs

\* enqueue_children: every arm is a placeholder that leaves the stack alone
enqueue_children(data, stack) ==
    CASE data.kind \in {"List", "Tuple"} -> stack
      [] data.kind = "Exception" -> stack
      [] OTHER -> stack

\* Heap::dec_ref: the while-let loop over the explicit stack
RECURSIVE DecRefLoop(_, _)
DecRefLoop(objs, stack) ==
    IF stack = <<>> THEN objs
    ELSE LET current == stack[Len(stack)]
             rest == SubSeq(stack, 1, Len(stack) - 1)
         IN  IF ~InBounds(objs, current) THEN DecRefLoop(objs, rest)
             ELSE IF objs[current + 1] = None THEN DecRefLoop(objs, rest)
             ELSE IF Refcount(objs, current) > 1
                  THEN DecRefLoop(
                         [objs EXCEPT ![current + 1] =
                            Some([Entry(objs, current) EXCEPT !.refcount = @ - 1])],
                         rest)
                  ELSE DecRefLoop([objs EXCEPT ![current + 1] = None],
                                  enqueue_children(Entry(objs, current).data, rest))
\* one turn of the while let Some(current) = stack.pop() loop of dec_ref
DecRefStepPeek(objs, stack) ==
    LET current == stack[Len(stack)]
        rest == SubSeq(stack, 1, Len(stack) - 1)
    IN  IF ~InBounds(objs, current) THEN [objects |-> objs, stack |-> stack]
        ELSE IF objs[current + 1] = None THEN [objects |-> objs, stack |-> stack]
        ELSE IF Refcount(objs, current) > 1
             THEN [objects |-> [objs EXCEPT ![current + 1] =
                                   Some([Entry(objs, current) EXCEPT !.refcount = @ - 1])],
                   stack |-> rest]
             ELSE [objects |-> [objs EXCEPT ![current + 1] = None],
                   stack |-> enqueue_children(Entry(objs, current).data, rest)]
DecRefStep(objs, stack) ==
    LET current == stack[Len(stack)]
        rest == SubSeq(stack, 1, Len(stack) - 1)
    IN  IF ~InBounds(objs, current) THEN [objects |-> objs, stack |-> rest]
        ELSE IF objs[current + 1] = None THEN [objects |-> objs, stack |-> rest]
        ELSE IF Refcount(objs, current) > 1
             THEN [objects |-> [objs EXCEPT ![current + 1] =
                                   Some([Entry(objs, current) EXCEPT !.refcount = @ - 1])],
                   stack |-> rest]
             ELSE [objects |-> [objs EXCEPT ![current + 1] = None],
                   stack |-> enqueue_children(Entry(objs, current).data, rest)]

DecRefToZero(objs, id) ==
    IF Occupied(objs, id) /\ Refcount(objs, id) >= 1
    THEN [objs EXCEPT ![id + 1] = Some([Entry(objs, id) EXCEPT !.refcount = @ - 1])]
    ELSE IF Occupied(objs, id) THEN [objs EXCEPT ![id + 1] = None]
    ELSE objs
DecRefEarly(objs, id) ==
    IF Occupied(objs, id) /\ Refcount(objs, id) > 2
    THEN [objs EXCEPT ![id + 1] = Some([Entry(objs, id) EXCEPT !.refcount = @ - 1])]
    ELSE IF Occupied(objs, id) THEN [objs EXCEPT ![id + 1] = None]
    ELSE objs
dec_ref(objs, id) == DecRefLoop(objs, <<id>>)

\* Result<&HeapData, HeapError>
Ok(data) == [tag |-> "Ok", data |-> data, err |-> "-"]
Err(e) == [tag |-> "Err", data |-> StrData, err |-> e]

\* Heap::get
GetOffByOne(objs, id) ==
    IF id >= 0 /\ id < Len(objs) - 1 /\ objs[id + 1] # None
    THEN Ok(Entry(objs, id).data)
    ELSE Err("InvalidId")
get(objs, id) ==
    IF InBounds(objs, id) /\ objs[id + 1] # None
    THEN Ok(Entry(objs, id).data)
    ELSE Err("InvalidId")

\* Heap::get_mut
get_mut(objs, id) ==
    IF InBounds(objs, id) /\ objs[id + 1] # None
    THEN Ok(Entry(objs, id).data)
    ELSE Err("InvalidId")

\* Heap::clear
ClearTombstones(objs) == [i \in 1..Len(objs) |-> None]
clear(objs) == <<>>

(***************************************************************************)
(* Values against the heap, and the tuple protocol                         *)
(* (crates/monty/src/types/tuple.rs).                                      *)
(***************************************************************************)
\* Value::clone_with_heap: cloning a Ref increments the target's refcount
clone_with_heap(v, objs) == IF IsRef(v) THEN inc_ref(objs, v.v) ELSE objs

\* Value::drop_with_heap: dropping a Ref decrements the target's refcount
drop_with_heap(v, objs) == IF IsRef(v) THEN dec_ref(objs, v.v) ELSE objs

\* RunResult<Value>
RunOk(v) == [tag |-> "Ok", val |-> v, err |-> "-"]
RunErr(e) == [tag |-> "Err", val |-> VNone, err |-> e]

\* Tuple::py_getitem: the result and the heap after the call. index is an i64
\* and is added to len only when negative, so the sum cannot leave the i64 range
PyGetItemNoWrap(t, key, objs) ==
    IF key.tag # "Int" THEN [res |-> RunErr("TypeError"), objects |-> objs]
    ELSE IF key.v < 0 \/ key.v >= Len(t.items)
         THEN [res |-> RunErr("IndexError"), objects |-> objs]
         ELSE [res |-> RunOk(t.items[key.v + 1]),
               objects |-> clone_with_heap(t.items[key.v + 1], objs)]
PyGetItemLeaky(t, key, objs) ==
    IF key.tag # "Int" THEN [res |-> RunErr("TypeError"), objects |-> objs]
    ELSE LET len == Len(t.items)
             index == key.v
             normalized_index == IF index < 0 THEN index + len ELSE index
             probe == IF len > 0 THEN clone_with_heap(t.items[1], objs) ELSE objs
         IN  IF normalized_index < 0 \/ normalized_index >= len
             THEN [res |-> RunErr("IndexError"), objects |-> probe]
             ELSE [res |-> RunOk(t.items[normalized_index + 1]),
                   objects |-> clone_with_heap(t.items[normalized_index + 1], objs)]
py_getitem(t, key, objs) ==
    IF key.tag # "Int" THEN [res |-> RunErr("TypeError"), objects |-> objs]
    ELSE LET len == Len(t.items)
             index == key.v
             normalized_index == IF index < 0 THEN index + len ELSE index
         IN  IF normalized_index < 0 \/ normalized_index >= len
             THEN [res |-> RunErr("IndexError"), objects |-> objs]
             ELSE LET idx == normalized_index
                  IN  [res |-> RunOk(t.items[idx + 1]),
                       objects |-> clone_with_heap(t.items[idx + 1], objs)]

\* Value::py_eq on items and Tuple::py_eq, which call each other
RECURSIVE value_py_eq(_, _, _)
RECURSIVE ZipAllEq(_, _, _, _)

\* the for loop of Tuple::py_eq over self.items.iter().zip(&other.items), from pair i
ZipAllEq(a, b, i, objs) ==
    IF i > Len(a) \/ i > Len(b) THEN TRUE
    ELSE IF ~value_py_eq(a[i], b[i], objs) THEN FALSE
    ELSE ZipAllEq(a, b, i + 1, objs)

\* Tuple::py_eq
PyEqNoLenCheck(self, other, objs) == ZipAllEq(self.items, other.items, 1, objs)
py_eq(self, other, objs) ==
    IF Len(self.items) # Len(other.items) THEN FALSE
    ELSE ZipAllEq(self.items, other.items, 1, objs)

value_py_eq(a, b, objs) ==
    IF a.tag # b.tag THEN FALSE
    ELSE IF a.tag # "Ref" THEN a.v = b.v
    ELSE IF a.v = b.v THEN TRUE
    ELSE IF ~Occupied(objs, a.v) \/ ~Occupied(objs, b.v) THEN FALSE
    ELSE LET da == Entry(objs, a.v).data
             db == Entry(objs, b.v).data
         IN  IF da.kind # db.kind THEN FALSE
             ELSE IF da.kind = "Tuple" THEN py_eq(da, db, objs)
             ELSE da.str = db.str

\* Tuple::py_dec_ref_ids: the ids pushed onto the stack
RECURSIVE PushRefIds(_, _, _)
PushRefIds(items, i, stack) ==
    IF i > Len(items) THEN stack
    ELSE PushRefIds(items, i + 1,
                    IF IsRef(items[i]) THEN Append(stack, items[i].v) ELSE stack)
PyDecRefIdsAfterFirst(t, stack) ==
    IF ~t.contains_refs THEN stack ELSE PushRefIds(t.items, 2, stack)
py_dec_ref_ids(t, stack) ==
    IF ~t.contains_refs THEN stack ELSE PushRefIds(t.items, 1, stack)

(***************************************************************************)
(* The position tracker (crates/monty/src/position.rs).                    *)
(***************************************************************************)
\* Option<ClauseState>: None, Some(If(bool)) with v 1 for true, Some(For(usize))
CsNone == [tag |-> "None", v |-> 0]
CsIf(b) == [tag |-> "If", v |-> IF b THEN 1 ELSE 0]
CsFor(i) == [tag |-> "For", v |-> i]

\* Position and Position::default()
Position(index, cs) == [index |-> index, clause_state |-> cs]
PositionDefault == Position(0, CsNone)

\* PositionTracker::default(): empty stack, no clause state, incr false
PositionTrackerDefault == [stack |-> <<>>, clause_state |-> CsNone, incr |-> FALSE]

\* From<Vec<Position>> for PositionTracker
PositionTrackerFromNothing(stack) == PositionTrackerDefault
PositionTrackerFrom(stack) == [PositionTrackerDefault EXCEPT !.stack = stack]

\* NoPositionTracker: a unit struct; next gives the default position, record and
\* set_clause_state do nothing
NoPositionTracker == [none |-> TRUE]
IsRecording(t) == "stack" \in DOMAIN t

\* PositionTracker::next: self.stack.pop().unwrap_or_default()
NextFromBottom(t) ==
    IF t.stack = <<>> THEN [pos |-> PositionDefault, tracker |-> t]
    ELSE [pos |-> t.stack[1], tracker |-> [t EXCEPT !.stack = Tail(@)]]
next(t) ==
    IF t.stack = <<>> THEN [pos |-> PositionDefault, tracker |-> t]
    ELSE [pos |-> t.stack[Len(t.stack)],
          tracker |-> [t EXCEPT !.stack = SubSeq(@, 1, Len(@) - 1)]]

\* PositionTracker::record: the index is bumped when incr is set, and the
\* pending clause state is taken into the pushed Position
RecordSkipsNode(t, index) ==
    [t EXCEPT !.stack = Append(@, Position(index + 1, t.clause_state)),
              !.incr = FALSE,
              !.clause_state = CsNone]
RecordKeepsClause(t, index) ==
    [t EXCEPT !.stack = Append(@, Position(IF t.incr THEN index + 1 ELSE index,
                                           t.clause_state)),
              !.incr = FALSE]
record(t, index) ==
    [t EXCEPT !.stack = Append(@, Position(IF t.incr THEN index + 1 ELSE index,
                                           t.clause_state)),
              !.incr = FALSE,
              !.clause_state = CsNone]

\* PositionTracker::set_clause_state
SetClauseStateDropped(t, cs) == t
set_clause_state(t, cs) == [t EXCEPT !.clause_state = cs]

\* AbstractPositionTracker, implemented by NoPositionTracker and PositionTracker
AbstractNext(t) ==
    IF IsRecording(t) THEN next(t) ELSE [pos |-> PositionDefault, tracker |-> t]
AbstractRecord(t, index) == IF IsRecording(t) THEN record(t, index) ELSE t
AbstractSetClauseState(t, cs) == IF IsRecording(t) THEN set_clause_state(t, cs) ELSE t

(***************************************************************************)
(* Expressions, nodes and their evaluation.                                *)
(***************************************************************************)
\* Object::Range(size) and Object::Exc(exc); an exception type is a number, see
\* ExcName
VRange(n) == [tag |-> "Range", v |-> n]
VExc(ty) == [tag |-> "Exc", v |-> ty]
ExcName(ty) == IF ty = 1 THEN "ValueError" ELSE IF ty = 2 THEN "TypeError" ELSE "Exception"

\* ExprLoc: a constant, a name resolved to a namespace index, a binary operator
\* or a call of a function the host registered as external
EConst(v) == [e |-> "Const", v |-> v, id |-> 0, op |-> "-", args |-> <<>>]
EName(id) == [e |-> "Name", v |-> VNone, id |-> id, op |-> "-", args |-> <<>>]
EOp(l, op, r) == [e |-> "Op", v |-> VNone, id |-> 0, op |-> op, args |-> <<l, r>>]
ECall(args) == [e |-> "Call", v |-> VNone, id |-> 0, op |-> "-", args |-> args]
\* len(e)
ELen(e) == [e |-> "Len", v |-> VNone, id |-> 0, op |-> "-", args |-> <<e>>]
\* a string literal
EStr == [e |-> "Str", v |-> VNone, id |-> 0, op |-> "-", args |-> <<>>]
\* Option<ExprLoc>::None
ENone == [e |-> "None", v |-> VNone, id |-> 0, op |-> "-", args |-> <<>>]

\* Node: nid names the node in the trace; cause is the expression after `from`
\* in the source text of a raise statement
Node(kind, nid, target, op, expr, body, or_else) ==
    [kind |-> kind, nid |-> nid, target |-> target, op |-> op, expr |-> expr,
     body |-> body, or_else |-> or_else]
NPass(nid) == Node("Pass", nid, 0, "-", ENone, <<>>, <<>>)
NExpr(nid, expr) == Node("Expr", nid, 0, "-", expr, <<>>, <<>>)
NReturn(nid, expr) == Node("Return", nid, 0, "-", expr, <<>>, <<>>)
NReturnNone(nid) == Node("ReturnNone", nid, 0, "-", ENone, <<>>, <<>>)
NRaise(nid, exc) == Node("Raise", nid, 0, "-", exc, <<>>, <<>>)
NAssign(nid, target, expr) == Node("Assign", nid, target, "-", expr, <<>>, <<>>)
NOpAssign(nid, target, op, expr) == Node("OpAssign", nid, target, op, expr, <<>>, <<>>)
NFor(nid, target, iter, body) == Node("For", nid, target, "-", iter, body, <<>>)
NIf(nid, test, body, or_else) == Node("If", nid, 0, "-", test, body, or_else)

\* The state a frame works on: the namespace, the heap, the position tracker, the reply
\* of the host to the pending external call (ext_return, an Option), the values
\* an external function returns when the host answers without suspending
\* (inline), and the trace of what was evaluated and dispatched
FrameState(ns, t, ext_return, inline) ==
    [ns |-> ns, parent |-> "None", name |-> "<module>", at |-> 0,
     heap |-> HeapNew, tracker |-> t, ext_return |-> ext_return,
     inline |-> inline, trace |-> <<>>, calls |-> 0]

\* "node": the execute call numbered call dispatches its node at index id;
\* "arg": argument id of a call was evaluated to v; "done": the node at index id
\* completed, v being the number it left in its target
TraceEvent(ev, call, id, nid, v) ==
    [ev |-> ev, call |-> call, id |-> id, nid |-> nid, v |-> v, val |-> VNone]
Log(fs, ev, call, id, nid, v) ==
    [fs EXCEPT !.trace = Append(@, TraceEvent(ev, call, id, nid, v))]

\* "node": the frame is at the node nid from now on
Dispatch(fs, call, id, nid) == [Log(fs, "node", call, id, nid, 0) EXCEPT !.at = nid]

\* "write": the namespace slot id was given the value val
LogWrite(fs, slot, value) ==
    [fs EXCEPT !.trace = Append(@, [TraceEvent("write", 0, slot, 0, 0) EXCEPT !.val = value])]

\* RunError: Exc(exception) with its type, its cause and whether a StackFrame
\* was attached, or Internal(InternalRunError)
\* StackFrame::new(position, name, parent); the position of a node is its nid
StackFrame(position, name, parent) ==
    [position |-> position, frame_name |-> name, parent |-> parent]
NoFrame == StackFrame(0, "-", "-")
NoError == [kind |-> "-", ty |-> "-", cause |-> "-", framed |-> FALSE, frame |-> NoFrame]
ExcError(ty) == [kind |-> "Exc", ty |-> ty, cause |-> "-", framed |-> FALSE, frame |-> NoFrame]
InternalError(ty) ==
    [kind |-> "Internal", ty |-> ty, cause |-> "-", framed |-> FALSE, frame |-> NoFrame]
\* Exception::with_frame
with_frame(e, frame) == [e EXCEPT !.framed = TRUE, !.frame = frame]
\* RunFrame::stack_frame
stack_frame(fs, position) == StackFrame(position, fs.name, fs.parent)

\* What evaluating an expression gives: a Value, an external call with its
\* evaluated arguments, an error, or a panic of the host process
EvalValue(fs, v) == [tag |-> "Value", val |-> v, args |-> <<>>, err |-> NoError, fs |-> fs]
EvalExternalCall(fs, args) ==
    [tag |-> "ExternalCall", val |-> VNone, args |-> args, err |-> NoError, fs |-> fs]
EvalErr(fs, e) == [tag |-> "Err", val |-> VNone, args |-> <<>>, err |-> e, fs |-> fs]
EvalPanic(fs, msg) ==
    [tag |-> "Panic", val |-> VNone, args |-> <<>>, err |-> InternalError(msg), fs |-> fs]

\* the binary operators: + adds Ints; @ is compiled to BinaryMatMul, whose
\* handler is todo!("BinaryMatMul not implemented")
binary_op(fs, op, l, r) ==
    CASE op = "Add" ->
            IF l.tag = "Int" /\ r.tag = "Int" THEN EvalValue(fs, VInt(l.v + r.v))
            ELSE EvalErr(fs, ExcError("TypeError"))
      [] op = "Mod" ->
            IF l.tag = "Int" /\ r.tag = "Int"
            THEN IF r.v > 0 THEN EvalValue(fs, VInt(l.v % r.v))
                 ELSE EvalErr(fs, ExcError("ZeroDivisionError"))
            ELSE EvalErr(fs, ExcError("TypeError"))
      [] op = "Eq" -> EvalValue(fs, VBool(l = r))
      [] op = "MatMult" -> EvalPanic(fs, "BinaryMatMul not implemented")
      [] OTHER -> EvalErr(fs, ExcError("TypeError"))

RECURSIVE evaluate(_, _)
RECURSIVE EvalArgs(_, _, _, _)
\* the arguments of a call, left to right; the first failure ends the evaluation
EvalArgs(fs, args, i, acc) ==
    IF i > Len(args) THEN EvalExternalCall(fs, acc)
    ELSE LET Rest(r) ==
                 IF r.tag # "Value" THEN r
                 ELSE EvalArgs(Log(r.fs, "arg", 0, i, 0, r.val.v), args, i + 1,
                               Append(acc, r.val))
         IN  Rest(evaluate(fs, args[i]))

\* evaluate: a call of an external function evaluates its arguments and then
\* leaves with ExternalCall, unless the host's reply to it is at hand
evaluate(fs, expr) ==
    CASE expr.e = "Const" -> EvalValue(fs, expr.v)
      [] expr.e = "Str" ->
            LET Allocated(a) == EvalValue([fs EXCEPT !.heap = a.objects], VRef(a.id))
            IN  Allocated(allocate(fs.heap, StrData))
      [] expr.e = "Name" -> EvalValue(fs, fs.ns[expr.id + 1])
      [] expr.e = "Op" ->
            LET Right(l, r) ==
                    IF r.tag # "Value" THEN r
                    ELSE binary_op(r.fs, expr.op, l.val, r.val)
                Left(l) ==
                    IF l.tag # "Value" THEN l
                    ELSE Right(l, evaluate(l.fs, expr.args[2]))
            IN  Left(evaluate(fs, expr.args[1]))
      [] expr.e = "Call" ->
            IF fs.ext_return # <<>>
            THEN EvalValue([fs EXCEPT !.ext_return = <<>>], fs.ext_return[1])
            ELSE LET Called(a) ==
                         IF a.tag # "ExternalCall" THEN a
                         ELSE IF a.fs.inline # <<>>
                              THEN EvalValue([a.fs EXCEPT !.inline = Tail(@)], a.fs.inline[1])
                              ELSE a
                 IN  Called(EvalArgs(fs, expr.args, 1, <<>>))
      [] expr.e = "Len" ->
            LET Measured(r) ==
                    IF r.tag # "Value" THEN r
                    ELSE IF r.val.tag = "Str" THEN EvalValue(r.fs, VInt(r.val.v))
                    ELSE EvalErr(r.fs, ExcError("TypeError"))
            IN  Measured(evaluate(fs, expr.args[1]))
      [] OTHER -> EvalErr(fs, InternalError("Error"))

\* Object::bool
ObjectBool(v) ==
    CASE v.tag = "Int" -> v.v # 0
      [] v.tag = "Bool" -> v.v = 1
      [] OTHER -> FALSE

(***************************************************************************)
(* The frame (src/src/run.rs).                                             *)
(***************************************************************************)
\* Option<Exit>: None, Some(Exit::Return(object)), Some(Exit::ReturnNone)
ExitNone == [tag |-> "None", val |-> VNone, args |-> <<>>]
ExitReturn(v) == [tag |-> "Return", val |-> v, args |-> <<>>]
ExitReturnNone == [tag |-> "ReturnNone", val |-> VNone, args |-> <<>>]

\* RunResult: Ok(exit) or Err(error), and the frame state left behind; Panic
\* stands for a panic unwinding through the frame
FrameOk(fs, exit) == [tag |-> "Ok", exit |-> exit, err |-> NoError, fs |-> fs]
FrameErr(fs, e) == [tag |-> "Err", exit |-> ExitNone, err |-> e, fs |-> fs]
FramePanic(fs, e) == [tag |-> "Panic", exit |-> ExitNone, err |-> e, fs |-> fs]

\* RunFrame::execute_expr: the value, or the error of evaluate passed on
execute_expr(fs, expr) ==
    LET Evaluated(r) ==
            IF r.tag = "ExternalCall" THEN EvalErr(r.fs, InternalError("Error")) ELSE r
    IN  Evaluated(evaluate(fs, expr))

\* the result of a failed execute_expr as the frame's result
Propagate(r) == IF r.tag = "Panic" THEN FramePanic(r.fs, r.err) ELSE FrameErr(r.fs, r.err)

\* RunFrame::raise
RaiseUnframed(fs, op_exc_expr) ==
    IF op_exc_expr.e # "None"
    THEN LET Raised(r) ==
                 IF r.tag # "Value" THEN Propagate(r)
                 ELSE IF r.val.tag = "Exc"
                      THEN FrameErr(r.fs, ExcError(ExcName(r.val.v)))
                      ELSE FrameErr(r.fs, ExcError("TypeError"))
         IN  Raised(execute_expr(fs, op_exc_expr))
    ELSE FrameErr(fs, InternalError("TodoError"))
raise(fs, op_exc_expr) ==
    IF op_exc_expr.e # "None"
    THEN LET Raised(r) ==
                 IF r.tag # "Value" THEN Propagate(r)
                 ELSE IF r.val.tag = "Exc"
                      THEN FrameErr(r.fs, with_frame(ExcError(ExcName(r.val.v)),
                                                     stack_frame(r.fs, r.fs.at)))
                      ELSE FrameErr(r.fs, ExcError("TypeError"))
         IN  Raised(execute_expr(fs, op_exc_expr))
    ELSE FrameErr(fs, InternalError("TodoError"))

\* RunFrame::assign
assign(fs, target, expr) ==
    LET Store(r) ==
            IF r.tag # "Value" THEN Propagate(r)
            ELSE FrameOk(LogWrite([r.fs EXCEPT !.ns[target + 1] = r.val], target, r.val),
                         ExitNone)
    IN  Store(execute_expr(fs, expr))

\* Object::add_mut: Ok for two Ints and for two Strs, Err(right) otherwise
add_mut(target_object, right) ==
    IF target_object.tag = "Int" /\ right.tag = "Int"
    THEN [ok |-> TRUE, val |-> VInt(target_object.v + right.v)]
    ELSE IF target_object.tag = "Str" /\ right.tag = "Str"
    THEN [ok |-> TRUE, val |-> VStr(target_object.v + right.v)]
    ELSE [ok |-> FALSE, val |-> target_object]

\* RunFrame::op_assign
op_assign(fs, target, op, expr) ==
    LET Added(r, m) ==
            IF m.ok
            THEN FrameOk(LogWrite([r.fs EXCEPT !.ns[target + 1] = m.val], target, m.val),
                         ExitNone)
            ELSE FrameErr(r.fs, with_frame(ExcError("TypeError"), stack_frame(r.fs, r.fs.at)))
        Update(r) ==
            IF r.tag # "Value" THEN Propagate(r)
            ELSE IF target < Len(r.fs.ns)
                 THEN IF op = "Add"
                      THEN Added(r, add_mut(r.fs.ns[target + 1], r.val))
                      ELSE FrameErr(r.fs, InternalError("TodoError"))
                 ELSE FrameErr(r.fs, with_frame(ExcError("NameError"), stack_frame(r.fs, r.fs.at)))
    IN  Update(execute_expr(fs, expr))

RECURSIVE execute(_, _)
RECURSIVE ExecuteLoop(_, _, _, _)
RECURSIVE ExecuteLoopPastExit(_, _, _, _)
RECURSIVE execute_node(_, _)
RECURSIVE for_loop(_, _, _, _)
RECURSIVE RangeLoop(_, _, _, _, _)
RECURSIVE if_(_, _, _, _)

\* the trace gets what the target holds when the body is entered
Bound(fs, target) ==
    [fs EXCEPT !.trace = Append(@, [TraceEvent("iter", 0, target, 0, fs.ns[target + 1].v)
                                       EXCEPT !.val = fs.ns[target + 1]])]

\* the loop body for the objects from..to-1 in ascending order: the target is
\* assigned, the body executed, an error of the body returned and its exit
\* dropped.  A span of several objects is run as its lower half followed by its
\* upper half, which keeps the evaluation shallow for a long range
RangeLoopPastError(fs, target, body, from, to) ==
    IF from >= to THEN FrameOk(fs, ExitNone)
    ELSE IF from + 1 = to
    THEN execute(Bound([fs EXCEPT !.ns[target + 1] = VInt(from)], target), body)
    ELSE LET Upper(r) == RangeLoop(r.fs, target, body, from + (to - from) \div 2, to)
         IN  Upper(RangeLoop(fs, target, body, from, from + (to - from) \div 2))
RangeLoop(fs, target, body, from, to) ==
    IF from >= to THEN FrameOk(fs, ExitNone)
    ELSE IF from + 1 = to
    THEN LET Iterate(r) == IF r.tag # "Ok" THEN r ELSE FrameOk(r.fs, ExitNone)
         IN  Iterate(execute(Bound([fs EXCEPT !.ns[target + 1] = VInt(from)], target),
                             body))
    ELSE LET Upper(r) ==
                 IF r.tag # "Ok" THEN r
                 ELSE RangeLoop(r.fs, target, body, from + (to - from) \div 2, to)
         IN  Upper(RangeLoop(fs, target, body, from, from + (to - from) \div 2))

\* for object in 0i64..range_size
ForRangeInclusive(fs, target, body, object, range_size) ==
    RangeLoop(fs, target, body, object, range_size + 1)
ForRange(fs, target, body, object, range_size) ==
    RangeLoop(fs, target, body, object, range_size)

\* RunFrame::for_loop
for_loop(fs, target, iter, body) ==
    LET Over(r) ==
            IF r.tag # "Value" THEN Propagate(r)
            ELSE IF r.val.tag = "Range"
                 THEN ForRange(r.fs, target, body, 0, r.val.v)
                 ELSE FrameErr(r.fs, InternalError("TodoError"))
    IN  Over(execute_expr(fs, iter))

\* RunFrame::if_, with execute_expr_bool
if_(fs, test, body, or_else) ==
    LET Branch(b) == IF b.tag # "Ok" THEN b ELSE FrameOk(b.fs, ExitNone)
        Tested(r) ==
            IF r.tag # "Value" THEN Propagate(r)
            ELSE Branch(execute(r.fs, IF ObjectBool(r.val) THEN body ELSE or_else))
    IN  Tested(execute_expr(fs, test))

\* RunFrame::execute_node
execute_node(fs, node) ==
    CASE node.kind = "Pass" -> FrameErr(fs, InternalError("Error"))
      [] node.kind = "Expr" ->
            LET Discard(r) ==
                    IF r.tag # "Value" THEN Propagate(r) ELSE FrameOk(r.fs, ExitNone)
            IN  Discard(execute_expr(fs, node.expr))
      [] node.kind = "Return" ->
            LET Returned(r) ==
                    IF r.tag # "Value" THEN Propagate(r)
                    ELSE FrameOk(r.fs, ExitReturn(r.val))
            IN  Returned(execute_expr(fs, node.expr))
      [] node.kind = "ReturnNone" -> FrameOk(fs, ExitReturnNone)
      [] node.kind = "Raise" -> raise(fs, node.expr)
      [] node.kind = "Assign" -> assign(fs, node.target, node.expr)
      [] node.kind = "OpAssign" -> op_assign(fs, node.target, node.op, node.expr)
      [] node.kind = "For" -> for_loop(fs, node.target, node.expr, node.body)
      [] node.kind = "If" -> if_(fs, node.expr, node.body, node.or_else)

\* for node in nodes: the trace gets the number of this call, the index of the
\* node and its nid when the node is dispatched ("node") and when it has
\* completed ("done"); an error is returned, the first exit is returned
ExecuteLoopPastExit(fs, nodes, i, call) ==
    IF i > Len(nodes) THEN FrameOk(fs, ExitReturnNone)
    ELSE LET Completed(r) == FrameOk(Log(r.fs, "done", call, i - 1, nodes[i].nid, 0), r.exit)
             Executed(r) ==
                 IF r.tag # "Ok" THEN r
                 ELSE IF r.exit.tag # "None" /\ i = Len(nodes) THEN Completed(r)
                      ELSE ExecuteLoopPastExit(Completed(r).fs, nodes, i + 1, call)
         IN  Executed(execute_node(Dispatch(fs, call, i - 1, nodes[i].nid), nodes[i]))
ExecuteLoop(fs, nodes, i, call) ==
    IF i > Len(nodes) THEN FrameOk(fs, ExitReturnNone)
    ELSE LET Completed(r) == FrameOk(Log(r.fs, "done", call, i - 1, nodes[i].nid, 0), r.exit)
             Executed(r) ==
                 IF r.tag # "Ok" THEN r
                 ELSE IF r.exit.tag # "None" THEN Completed(r)
                      ELSE ExecuteLoop(Completed(r).fs, nodes, i + 1, call)
         IN  Executed(execute_node(Dispatch(fs, call, i - 1, nodes[i].nid), nodes[i]))

\* RunFrame::execute
execute(fs, nodes) ==
    ExecuteLoop([fs EXCEPT !.calls = @ + 1], nodes, 1, fs.calls + 1)

(***************************************************************************)
(* The frame that can suspend: execute asks the tracker where to start,    *)
(* an exit is passed up through every enclosing block, and each block on   *)
(* the way records its position.                                           *)
(***************************************************************************)
\* FrameExit::ExternalCall: the arguments have already been evaluated
ExitExternalCall(args) == [tag |-> "ExternalCall", val |-> VNone, args |-> args]

\* the result of an expression as the result of the node it is the whole of
NodeOfExpr(r) ==
    IF r.tag = "ExternalCall" THEN FrameOk(r.fs, ExitExternalCall(r.args))
    ELSE Propagate(r)

RECURSIVE TrackedExecute(_, _)
RECURSIVE TrackedLoop(_, _, _, _)
RECURSIVE TrackedNode(_, _, _)
RECURSIVE TrackedIf(_, _, _)
RECURSIVE TrackedFor(_, _, _)
RECURSIVE TrackedForRange(_, _, _, _, _)

\* an exit of a block inside an If or a For: the controller leaves its clause
\* state with the tracker and passes the exit on
LeaveClause(r, cs) ==
    IF r.tag = "Ok" /\ r.exit.tag # "None"
    THEN FrameOk([r.fs EXCEPT !.tracker = AbstractSetClauseState(@, cs)], r.exit)
    ELSE r

\* the elements from object on: the target is assigned and the body executed;
\* an exit of the body leaves For(object + 1), the next element to iterate over
TrackedForRange(fs, target, body, object, range_size) ==
    IF object >= range_size THEN FrameOk(fs, ExitNone)
    ELSE LET Iterate(r) ==
                 IF r.tag # "Ok" \/ r.exit.tag # "None"
                 THEN LeaveClause(r, CsFor(object + 1))
                 ELSE TrackedForRange(r.fs, target, body, object + 1, range_size)
         IN  Iterate(TrackedExecute([fs EXCEPT !.ns[target + 1] = VInt(object)], body))

\* a For resumed with For(k) first finishes the body of the element it was
\* suspended in, leaving the target alone, and goes on with element k
TrackedFor(fs, node, clause_state) ==
    LET Finished(it, r) ==
            IF r.tag # "Ok" \/ r.exit.tag # "None"
            THEN LeaveClause(r, CsFor(clause_state.v))
            ELSE TrackedForRange(r.fs, node.target, node.body, clause_state.v, it.val.v)
        Over(it) ==
            IF it.tag # "Value" THEN NodeOfExpr(it)
            ELSE IF it.val.tag # "Range" THEN FrameErr(it.fs, InternalError("TodoError"))
            ELSE IF clause_state.tag = "For"
                 THEN Finished(it, TrackedExecute(it.fs, node.body))
                 ELSE TrackedForRange(it.fs, node.target, node.body, 0, it.val.v)
    IN  Over(evaluate(fs, node.expr))

\* an If resumed with If(b) enters the branch b without evaluating the test
TrackedIf(fs, node, clause_state) ==
    IF clause_state.tag = "If"
    THEN LeaveClause(TrackedExecute(fs, IF clause_state.v = 1 THEN node.body
                                        ELSE node.or_else),
                     clause_state)
    ELSE LET Tested(t) ==
                 IF t.tag # "Value" THEN NodeOfExpr(t)
                 ELSE LeaveClause(TrackedExecute(t.fs, IF ObjectBool(t.val) THEN node.body
                                                       ELSE node.or_else),
                                  CsIf(ObjectBool(t.val)))
         IN  Tested(evaluate(fs, node.expr))

TrackedNode(fs, node, clause_state) ==
    LET Discard(r) == IF r.tag # "Value" THEN NodeOfExpr(r) ELSE FrameOk(r.fs, ExitNone)
        Returned(r) ==
            IF r.tag # "Value" THEN NodeOfExpr(r) ELSE FrameOk(r.fs, ExitReturn(r.val))
        Store(r) ==
            IF r.tag # "Value" THEN NodeOfExpr(r)
            ELSE FrameOk([r.fs EXCEPT !.ns[node.target + 1] = r.val], ExitNone)
        Added(r, m) ==
            IF node.op = "Add" /\ m.ok
            THEN FrameOk([r.fs EXCEPT !.ns[node.target + 1] = m.val], ExitNone)
            ELSE FrameErr(r.fs, with_frame(ExcError("TypeError"),
                                           stack_frame(r.fs, node.nid)))
        Update(r) ==
            IF r.tag # "Value" THEN NodeOfExpr(r)
            ELSE Added(r, add_mut(r.fs.ns[node.target + 1], r.val))
    IN
    CASE node.kind = "Expr" -> Discard(evaluate(fs, node.expr))
      [] node.kind = "Return" -> Returned(evaluate(fs, node.expr))
      [] node.kind = "Assign" -> Store(evaluate(fs, node.expr))
      [] node.kind = "OpAssign" -> Update(evaluate(fs, node.expr))
      [] node.kind = "For" -> TrackedFor(fs, node, clause_state)
      [] node.kind = "If" -> TrackedIf(fs, node, clause_state)
      [] OTHER -> execute_node(fs, node)

\* the nodes from index i - 1 on; the clause state goes to the first node
\* dispatched only; a node that completes is logged; an exit makes the block
\* record the index of the node it came from
TrackedLoop(fs, nodes, i, clause_state) ==
    IF i > Len(nodes) THEN FrameOk(fs, ExitNone)
    ELSE LET Executed(r) ==
                 IF r.tag # "Ok" THEN r
                 ELSE IF r.exit.tag # "None"
                      THEN FrameOk([r.fs EXCEPT !.tracker = AbstractRecord(@, i - 1)], r.exit)
                      ELSE TrackedLoop(Log(r.fs, "done", 0, i - 1, nodes[i].nid,
                                           IF nodes[i].kind \in {"Assign", "OpAssign"}
                                           THEN r.fs.ns[nodes[i].target + 1].v ELSE 0),
                                       nodes, i + 1, CsNone)
         IN  Executed(TrackedNode(fs, nodes[i], clause_state))

\* execute of the suspendable frame: the start index and the clause state of
\* the first node come from position_tracker.next()
TrackedExecute(fs, nodes) ==
    LET From(n) ==
            TrackedLoop([fs EXCEPT !.tracker = n.tracker], nodes,
                        n.pos.index + 1, n.pos.clause_state)
    IN  From(AbstractNext(fs.tracker))

(***************************************************************************)
(* The snapshot codec: RunProgress::dump and RunProgress::load, which the  *)
(* reproduction of the deserialization bug documents as postcard encoding  *)
(* and postcard::from_bytes with no validation of the decoded state.       *)
(***************************************************************************)
\* what a paused run consists of: the program, the heap (one refcount per
\* slot, 0 for a tombstone), the namespace and the position stack
Snapshot(prog, heap, ns, stack) == [prog |-> prog, heap |-> heap, ns |-> ns, stack |-> stack]

\* the largest number the codec is followed to
MaxVarint == 1048576

\* an unsigned number as a varint: seven bits per byte, low bits first, the
\* high bit set on every byte but the last
RECURSIVE Varint(_)
Varint(n) == IF n < 128 THEN <<n>> ELSE <<128 + (n % 128)>> \o Varint(n \div 128)

\* a signed number is zigzag-encoded before it is written as a varint
ZigZag(i) == IF i >= 0 THEN 2 * i ELSE (0 - 2 * i) - 1
UnZigZag(n) == IF n % 2 = 0 THEN n \div 2 ELSE 0 - ((n + 1) \div 2)

\* Value: the variant index, then the payload
DumpValue(v) ==
    CASE v.tag = "None" -> <<0>>
      [] v.tag = "Bool" -> <<1, v.v>>
      [] v.tag = "Int" -> <<2>> \o Varint(ZigZag(v.v))
      [] v.tag = "Range" -> <<3>> \o Varint(ZigZag(v.v))
      [] v.tag = "Ref" -> <<4>> \o Varint(v.v)

\* Option<ClauseState>: 0 for None; 1, the variant index and the payload for Some
DumpClauseState(cs) ==
    CASE cs.tag = "None" -> <<0>>
      [] cs.tag = "If" -> <<1, 0, cs.v>>
      [] cs.tag = "For" -> <<1, 1>> \o Varint(cs.v)

\* Position: index, clause_state
DumpPosition(pos) == Varint(pos.index) \o DumpClauseState(pos.clause_state)

\* a heap slot: 0 for a tombstone; 1 and the refcount for an object
DumpSlot(rc) == IF rc = 0 THEN <<0>> ELSE <<1>> \o Varint(rc)

RECURSIVE DumpValues(_, _)
DumpValues(vs, i) == IF i > Len(vs) THEN <<>> ELSE DumpValue(vs[i]) \o DumpValues(vs, i + 1)
RECURSIVE DumpPositions(_, _)
DumpPositions(ps, i) ==
    IF i > Len(ps) THEN <<>> ELSE DumpPosition(ps[i]) \o DumpPositions(ps, i + 1)
RECURSIVE DumpSlots(_, _)
DumpSlots(h, i) == IF i > Len(h) THEN <<>> ELSE DumpSlot(h[i]) \o DumpSlots(h, i + 1)

\* RunProgress::dump: every sequence is written as its length and its elements
dump(snap) ==
    Varint(snap.prog)
    \o Varint(Len(snap.heap)) \o DumpSlots(snap.heap, 1)
    \o Varint(Len(snap.ns)) \o DumpValues(snap.ns, 1)
    \o Varint(Len(snap.stack)) \o DumpPositions(snap.stack, 1)

\* What reading gives: the value read and the bytes left, or a failure
Taken(val, rest) == [ok |-> TRUE, val |-> val, rest |-> rest]
Fail == [ok |-> FALSE, val |-> 0, rest |-> <<>>]

\* a varint: running out of bytes is DeserializeUnexpectedEnd.  Numbers from
\* MaxVarint on are not told apart: each is read as MaxVarint
RECURSIVE TakeVarint(_)
TakeVarint(b) ==
    IF b = <<>> THEN Fail
    ELSE IF b[1] < 128 THEN Taken(b[1], Tail(b))
    ELSE LET Capped(n, rest) == Taken(IF n >= MaxVarint THEN MaxVarint ELSE n, rest)
             High(r) ==
                 IF ~r.ok THEN Fail
                 ELSE IF r.val >= MaxVarint \div 128 THEN Taken(MaxVarint, r.rest)
                 ELSE Capped((b[1] - 128) + 128 * r.val, r.rest)
         IN  High(TakeVarint(Tail(b)))

TakeValue(b) ==
    IF b = <<>> THEN Fail
    ELSE LET rest == Tail(b)
             IntOf(n) == IF n.ok THEN Taken(VInt(UnZigZag(n.val)), n.rest) ELSE Fail
             RangeOf(n) == IF n.ok THEN Taken(VRange(UnZigZag(n.val)), n.rest) ELSE Fail
             RefOf(n) == IF n.ok THEN Taken(VRef(n.val), n.rest) ELSE Fail
         IN  CASE b[1] = 0 -> Taken(VNone, rest)
               [] b[1] = 1 -> IF rest # <<>> /\ rest[1] \in {0, 1}
                              THEN Taken(VBool(rest[1] = 1), Tail(rest)) ELSE Fail
               [] b[1] = 2 -> IntOf(TakeVarint(rest))
               [] b[1] = 3 -> RangeOf(TakeVarint(rest))
               [] b[1] = 4 -> RefOf(TakeVarint(rest))
               [] OTHER -> Fail

TakeClauseState(b) ==
    IF b = <<>> THEN Fail
    ELSE IF b[1] = 0 THEN Taken(CsNone, Tail(b))
    ELSE IF b[1] # 1 \/ Len(b) < 2 THEN Fail
    ELSE LET rest == SubSeq(b, 3, Len(b))
             ForOf(n) == IF n.ok THEN Taken(CsFor(n.val), n.rest) ELSE Fail
         IN  CASE b[2] = 0 -> IF rest # <<>> /\ rest[1] \in {0, 1}
                              THEN Taken(CsIf(rest[1] = 1), Tail(rest)) ELSE Fail
               [] b[2] = 1 -> ForOf(TakeVarint(rest))
               [] OTHER -> Fail

TakePosition(b) ==
    LET Clause(i, cs) == IF cs.ok THEN Taken(Position(i.val, cs.val), cs.rest) ELSE Fail
        Index(i) == IF ~i.ok THEN Fail ELSE Clause(i, TakeClauseState(i.rest))
    IN  Index(TakeVarint(b))

TakeSlot(b) ==
    IF b = <<>> THEN Fail
    ELSE IF b[1] = 0 THEN Taken(0, Tail(b))
    ELSE IF b[1] # 1 THEN Fail
    ELSE TakeVarint(Tail(b))

\* n elements, one after the other
RECURSIVE TakeValues(_, _, _)
TakeValues(b, n, acc) ==
    IF n = 0 THEN Taken(acc, b)
    ELSE LET Rest(r) == IF r.ok THEN TakeValues(r.rest, n - 1, Append(acc, r.val)) ELSE Fail
         IN  Rest(TakeValue(b))
RECURSIVE TakePositions(_, _, _)
TakePositions(b, n, acc) ==
    IF n = 0 THEN Taken(acc, b)
    ELSE LET Rest(r) == IF r.ok THEN TakePositions(r.rest, n - 1, Append(acc, r.val)) ELSE Fail
         IN  Rest(TakePosition(b))
RECURSIVE TakeSlots(_, _, _)
TakeSlots(b, n, acc) ==
    IF n = 0 THEN Taken(acc, b)
    ELSE LET Rest(r) == IF r.ok THEN TakeSlots(r.rest, n - 1, Append(acc, r.val)) ELSE Fail
         IN  Rest(TakeSlot(b))

LoadOk(snap) == [tag |-> "Ok", snap |-> snap]
LoadErr == [tag |-> "Err", snap |-> Snapshot(0, <<>>, <<>>, <<>>)]

\* RunProgress::load: postcard::from_bytes reads the fields in order, fails when
\* the bytes run out or a variant index is unknown, does not look at the bytes
\* left over and does not validate the state it has decoded
load(b) ==
    LET Decoded(p, h, ns, st) ==
            IF st.ok THEN LoadOk(Snapshot(p.val, h.val, ns.val, st.val)) ELSE LoadErr
        StackLen(p, h, ns, sn) ==
            IF sn.ok THEN Decoded(p, h, ns, TakePositions(sn.rest, sn.val, <<>>)) ELSE LoadErr
        Namespace(p, h, ns) ==
            IF ns.ok THEN StackLen(p, h, ns, TakeVarint(ns.rest)) ELSE LoadErr
        NamespaceLen(p, h, nn) ==
            IF nn.ok THEN Namespace(p, h, TakeValues(nn.rest, nn.val, <<>>)) ELSE LoadErr
        HeapSlots(p, h) == IF h.ok THEN NamespaceLen(p, h, TakeVarint(h.rest)) ELSE LoadErr
        HeapLen(p, hn) ==
            IF hn.ok THEN HeapSlots(p, TakeSlots(hn.rest, hn.val, <<>>)) ELSE LoadErr
        Program(p) == IF p.ok THEN HeapLen(p, TakeVarint(p.rest)) ELSE LoadErr
    IN  Program(TakeVarint(b))

\* no program is being run
NoRun == [phase |-> "none"]

(***************************************************************************)
(* The heap API driven call by call.                                       *)
(***************************************************************************)
\* the payloads the tests allocate: a Str, and a List of two Ints
ArenaData == {StrData, ListData(<<VInt(1), VInt(2)>>)}
\* ids a caller may pass: every slot, and one id past the end of the arena
ArenaIds == 0..MaxArena

NoCall == [op |-> "none", id |-> 0, res |-> Err("-")]
Call(op, id, res) == [op |-> op, id |-> id, res |-> res]

\* For the slots allocated since the last clear(): hist.incs[id] counts the inc_ref
\* calls on id that came before its (incs+1)-th dec_ref, hist.decs[id] the dec_ref
\* calls on id; hist.issued lists the ids allocate returned, in order
NoHist == [incs |-> [i \in ArenaIds |-> 0], decs |-> [i \in ArenaIds |-> 0], issued |-> <<>>]

Init ==
    /\ objects = HeapNew
    /\ roots = <<>>
    /\ last = NoCall
    /\ hist = NoHist
    /\ tracker = PositionTrackerDefault
    /\ run = NoRun

Allocate(data) ==
    /\ Len(objects) < MaxArena
    /\ LET r == allocate(objects, data)
       IN  /\ objects' = r.objects
           /\ last' = Call("allocate", r.id, Ok(data))
           /\ hist' = [hist EXCEPT !.issued = Append(@, r.id),
                                   !.incs[r.id] = 0, !.decs[r.id] = 0]
    /\ UNCHANGED <<roots, tracker, run>>

IncRef(id) ==
    /\ hist.incs[id] < MaxCalls
    /\ objects' = inc_ref(objects, id)
    /\ last' = Call("inc_ref", 0, Err("-"))
    /\ hist' = IF InBounds(objects, id) /\ hist.decs[id] <= hist.incs[id]
               THEN [hist EXCEPT !.incs[id] = @ + 1]
               ELSE hist
    /\ UNCHANGED <<roots, tracker, run>>

DecRef(id) ==
    /\ hist.decs[id] < MaxCalls + 1
    /\ objects' = dec_ref(objects, id)
    /\ last' = Call("dec_ref", 0, Err("-"))
    /\ hist' = IF InBounds(objects, id)
               THEN [hist EXCEPT !.decs[id] = @ + 1]
               ELSE hist
    /\ UNCHANGED <<roots, tracker, run>>

Get(id) ==
    /\ last' = Call("get", id, get(objects, id))
    /\ UNCHANGED <<objects, roots, hist, tracker, run>>

GetMut(id) ==
    /\ last' = Call("get_mut", id, get_mut(objects, id))
    /\ UNCHANGED <<objects, roots, hist, tracker, run>>

Clear ==
    /\ objects # <<>>
    /\ objects' = clear(objects)
    /\ last' = Call("clear", 0, Err("-"))
    /\ hist' = NoHist
    /\ UNCHANGED <<roots, tracker, run>>

Next ==
    \/ \E data \in ArenaData : Allocate(data)
    \/ \E id \in ArenaIds : IncRef(id)
    \/ \E id \in ArenaIds : DecRef(id)
    \/ \E id \in ArenaIds : Get(id)
    \/ \E id \in ArenaIds : GetMut(id)
    \/ Clear

Spec == Init /\ [][Next]_vars

(***************************************************************************)
(* Claims about the heap API, checked under Spec.                          *)
(***************************************************************************)
AllocatedIds == 0..(Len(objects) - 1)

\* C1: a slot created by allocate and given k inc_ref calls stays readable
\* through get during its first k dec_ref calls, whatever is done to other ids,
\* and is tombstoned by exactly the (k+1)-th dec_ref on its id.
C1_ReadableUntilLastDecRef ==
    \A id \in AllocatedIds :
        /\ hist.decs[id] <= hist.incs[id] => get(objects, id).tag = "Ok"
        /\ hist.decs[id] > hist.incs[id] => get(objects, id) = Err("InvalidId")

\* k = 2: the third dec_ref has tombstoned the slot, with calls on another id made
C1_Witness ==
    \E id \in AllocatedIds, other \in AllocatedIds :
        /\ other # id
        /\ hist.incs[id] = 2 /\ hist.decs[id] = 3
        /\ hist.incs[other] >= 1 /\ hist.decs[other] >= 1
        /\ objects[id + 1] = None

\* C4: between two clear() calls every id allocate returns is strictly greater
\* than every id it returned earlier, tombstoned slots included.
C4_IdsNeverReused ==
    \A i \in 1..Len(hist.issued), j \in 1..Len(hist.issued) :
        i < j => hist.issued[i] < hist.issued[j]

\* allocate has just returned an id while an earlier slot was tombstoned
C4_Witness ==
    /\ last.op = "allocate"
    /\ Len(hist.issued) >= 2
    /\ \E id \in AllocatedIds : id < last.id /\ objects[id + 1] = None

\* C5: get and get_mut return the stored data of an occupied slot and InvalidId
\* for a tombstoned slot and for an id past the end, and change no slot.
C5_GetChecksBoundsAndTombstones ==
    [][last'.op \in {"get", "get_mut"} =>
          /\ objects' = objects
          /\ LET id == last'.id
             IN  /\ id >= Len(objects) => last'.res = Err("InvalidId")
                 /\ (id < Len(objects) /\ objects[id + 1] = None)
                        => last'.res = Err("InvalidId")
                 /\ (id < Len(objects) /\ objects[id + 1] # None)
                        => /\ last'.res.tag = "Ok"
                           /\ last'.res.data = objects[id + 1][1].data]_vars

\* get_mut has just answered InvalidId for a tombstoned slot inside the arena
C5_Witness ==
    /\ last.op = "get_mut"
    /\ last.id < Len(objects)
    /\ objects[last.id + 1] = None
    /\ last.res = Err("InvalidId")

(***************************************************************************)
(* Strings and tuples built, indexed, compared and dropped through live    *)
(* locations: every copy of a Value goes through clone_with_heap and every *)
(* drop through drop_with_heap.                                            *)
(***************************************************************************)
\* the Int items and keys used
IntItems == {VInt(0), VInt(1)}
\* keys offered to py_getitem: every Int index in and around the range, and
\* three keys that are not Ints
GetItemKeys ==
    {VInt(i) : i \in (0 - MaxTupleLen - 1)..MaxTupleLen} \cup {VNone, VBool(TRUE), VRef(0)}

RECURSIVE SeqsUpTo(_, _)
SeqsUpTo(S, n) ==
    IF n = 0 THEN {<<>>}
    ELSE LET shorter == SeqsUpTo(S, n - 1)
         IN  shorter \cup {Append(q, x) : q \in {r \in shorter : Len(r) = n - 1}, x \in S}

RootValues == {roots[i] : i \in 1..Len(roots)}
RemoveAt(q, i) == SubSeq(q, 1, i - 1) \o SubSeq(q, i + 1, Len(q))

\* the items are cloned one by one from live values
RECURSIVE CloneAll(_, _, _)
CloneAll(items, i, objs) ==
    IF i > Len(items) THEN objs
    ELSE CloneAll(items, i + 1, clone_with_heap(items[i], objs))

IsTupleRoot(loc) ==
    /\ IsRef(roots[loc])
    /\ Occupied(objects, roots[loc].v)
    /\ Entry(objects, roots[loc].v).data.kind = "Tuple"

TupleCall(op, id, key, res, eq) ==
    [op |-> op, id |-> id, key |-> key, res |-> res, eq |-> eq]

InitRefs ==
    /\ objects = HeapNew
    /\ roots = <<>>
    /\ last = NoCall
    /\ hist = NoHist
    /\ tracker = PositionTrackerDefault
    /\ run = NoRun

\* a string literal: allocate a Str and keep the handle in a new location
NewStr ==
    /\ Len(objects) < MaxObjects
    /\ Len(roots) < MaxRoots
    /\ LET r == allocate(objects, StrData)
       IN  /\ objects' = r.objects
           /\ roots' = Append(roots, VRef(r.id))
    /\ last' = NoCall
    /\ UNCHANGED <<hist, tracker, run>>

\* a tuple built from clones of live values and Int literals, then allocated
BuildTuple(items) ==
    /\ Len(objects) < MaxObjects
    /\ Len(roots) < MaxRoots
    /\ LET r == allocate(CloneAll(items, 1, objects), TupleFromIter(items))
       IN  /\ objects' = r.objects
           /\ roots' = Append(roots, VRef(r.id))
    /\ last' = NoCall
    /\ UNCHANGED <<hist, tracker, run>>

\* t[key] on the tuple held by location loc; an Ok result lands in a new location
GetItem(loc, key) ==
    /\ IsTupleRoot(loc)
    /\ key.tag = "Ref" => Occupied(objects, key.v)
    /\ LET id == roots[loc].v
           r == py_getitem(Entry(objects, id).data, key, objects)
       IN  /\ r.res.tag = "Ok" => Len(roots) < MaxRoots
           /\ objects' = r.objects
           /\ roots' = IF r.res.tag = "Ok" THEN Append(roots, r.res.val) ELSE roots
           /\ last' = TupleCall("getitem", id, key, r.res, FALSE)
    /\ UNCHANGED <<hist, tracker, run>>

\* a == b on the tuples held by two locations
PyEq(l1, l2) ==
    /\ IsTupleRoot(l1)
    /\ IsTupleRoot(l2)
    /\ LET a == roots[l1].v
           b == roots[l2].v
       IN  last' = TupleCall("py_eq", a, VRef(b), RunOk(VNone),
                             py_eq(Entry(objects, a).data, Entry(objects, b).data, objects))
    /\ UNCHANGED <<objects, roots, hist, tracker, run>>

\* a location goes out of scope
DropRoot(loc) ==
    /\ objects' = drop_with_heap(roots[loc], objects)
    /\ roots' = RemoveAt(roots, loc)
    /\ last' = NoCall
    /\ UNCHANGED <<hist, tracker, run>>

\* keys that copy an item out of a tuple
CopyKeys == {VInt(i) : i \in 0..(MaxTupleLen - 1)}

NextRefs ==
    \/ NewStr
    \/ \E items \in SeqsUpTo(IntItems \cup RootValues, MaxTupleLen) : BuildTuple(items)
    \/ \E loc \in 1..Len(roots), key \in CopyKeys : GetItem(loc, key)
    \/ \E loc \in 1..Len(roots) : DropRoot(loc)

SpecRefs == InitRefs /\ [][NextRefs]_vars

(***************************************************************************)
(* The tuple protocol on one tuple at a time: a tuple is built from Ints   *)
(* and references to a Str, indexed with every key, and dropped.           *)
(***************************************************************************)
\* the heap holds nothing but the Str: no tuple has been built yet
OnlyStr == Len(objects) = 1

\* s = 'hello'
InitTuple ==
    /\ objects = allocate(HeapNew, StrData).objects
    /\ roots = <<VRef(0)>>
    /\ last = NoCall
    /\ hist = NoHist
    /\ tracker = PositionTrackerDefault
    /\ run = NoRun

NextTuple ==
    \/ \E items \in SeqsUpTo(IntItems \cup RootValues, MaxTupleLen) :
          OnlyStr /\ BuildTuple(items)
    \/ \E loc \in 1..Len(roots), key \in GetItemKeys : GetItem(loc, key)
    \/ \E loc \in 1..Len(roots) : DropRoot(loc)

SpecTuple == InitTuple /\ [][NextTuple]_vars

(***************************************************************************)
(* Tuple equality on every pair of tuples up to MaxTupleLen over two Ints  *)
(* and a reference to a Str.                                               *)
(***************************************************************************)
TupleItems == IntItems \cup {VRef(0)}

\* s = 'hello'; self = (...); other = (...); del s
TupleHeap(a, b) ==
    LET h0 == allocate(HeapNew, StrData).objects
        h1 == allocate(CloneAll(a, 1, h0), TupleNew(a)).objects
        h2 == allocate(CloneAll(b, 1, h1), TupleFromIter(b)).objects
    IN  drop_with_heap(VRef(0), h2)

InitEq ==
    /\ \E a \in SeqsUpTo(TupleItems, MaxTupleLen), b \in SeqsUpTo(TupleItems, MaxTupleLen) :
           objects = TupleHeap(a, b)
    /\ roots = <<VRef(1), VRef(2)>>
    /\ last = NoCall
    /\ hist = NoHist
    /\ tracker = PositionTrackerDefault
    /\ run = NoRun

NextEq == \E l1 \in 1..Len(roots), l2 \in 1..Len(roots) : PyEq(l1, l2)

SpecEq == InitEq /\ [][NextEq]_vars

(***************************************************************************)
(* Sequence repetition under a memory limit (Heap::mult_sequence, as the   *)
(* reproduction of its leak documents it).                                 *)
(***************************************************************************)
\* PyTrait::py_estimate_size, in units of size_of::<Value>()
py_estimate_size(data) == 1 + Len(data.items)

\* the heap's running size estimate: the occupied slots among 0..n-1
RECURSIVE HeapSize(_, _)
HeapSize(objs, n) ==
    IF n = 0 THEN 0
    ELSE (IF objs[n] # None THEN py_estimate_size(objs[n][1].data) ELSE 0)
         + HeapSize(objs, n - 1)

\* allocate under a LimitedTracker: charges the estimate, MemoryError past the limit
allocate_limited(objs, data) ==
    IF HeapSize(objs, Len(objs)) + py_estimate_size(data) > MaxMemory
    THEN [res |-> RunErr("MemoryError"), objects |-> objs]
    ELSE LET r == allocate(objs, data)
         IN  [res |-> RunOk(VRef(r.id)), objects |-> r.objects]

RECURSIVE Repeat(_, _)
Repeat(items, count) == IF count <= 0 THEN <<>> ELSE items \o Repeat(items, count - 1)

\* Heap::mult_sequence: 1. the refcount of every contained Ref is incremented once
\* per copy; 2. the items vector is forgotten; 3. allocate, which can fail, and
\* then nothing undoes step 1
mult_sequence(objs, id, count) ==
    LET data == Entry(objs, id).data
        items == Repeat(data.items, count)
        incremented == CloneAll(items, 1, objs)
        result == IF data.kind = "Tuple" THEN TupleNew(items) ELSE ListData(items)
    IN  allocate_limited(incremented, result)

IsSeqRoot(loc) ==
    /\ IsRef(roots[loc])
    /\ Occupied(objects, roots[loc].v)
    /\ Entry(objects, roots[loc].v).data.kind \in {"List", "Tuple"}

\* a list built from clones of live values and Int literals, then allocated
BuildList(items) ==
    /\ Len(objects) < MaxObjects
    /\ Len(roots) < MaxRoots
    /\ LET r == allocate(CloneAll(items, 1, objects), ListData(items))
       IN  /\ objects' = r.objects
           /\ roots' = Append(roots, VRef(r.id))
    /\ last' = NoCall
    /\ UNCHANGED <<hist, tracker, run>>

\* y = x * count on the list or tuple held by location loc
MultSequence(loc, count) ==
    /\ IsSeqRoot(loc)
    /\ Len(objects) < MaxObjects
    /\ Len(roots) < MaxRoots
    /\ LET id == roots[loc].v
           r == mult_sequence(objects, id, count)
       IN  /\ \A c \in 0..(Len(objects) - 1) :
                  r.objects[c + 1] # None => Refcount(r.objects, c) <= MaxRefcount
           /\ objects' = r.objects
           /\ roots' = IF r.res.tag = "Ok" THEN Append(roots, r.res.val) ELSE roots
           /\ last' = TupleCall("mult", id, VInt(count), r.res, FALSE)
    /\ UNCHANGED <<hist, tracker, run>>

NextMult ==
    \/ NewStr
    \/ \E items \in SeqsUpTo(RootValues, 1) : BuildTuple(items)
    \/ \E items \in SeqsUpTo(RootValues, 1) : BuildList(items)
    \/ \E loc \in 1..Len(roots), count \in 0..MaxCount : MultSequence(loc, count)
    \/ \E loc \in 1..Len(roots) : DropRoot(loc)

SpecMult == InitRefs /\ [][NextMult]_vars

(***************************************************************************)
(* Claims about reference counts, checked under SpecRefs.                  *)
(***************************************************************************)
ObjectIds == 0..(Len(objects) - 1)
IsContainer(data) == data.kind \in {"List", "Tuple", "Exception"}

\* number of items of a sequence that are Ref(id)
RECURSIVE CountRef(_, _)
CountRef(items, id) ==
    IF items = <<>> THEN 0
    ELSE (IF items[1] = VRef(id) THEN 1 ELSE 0) + CountRef(Tail(items), id)

\* Ref(id) held by the elements of the occupied containers among slots 0..n-1
RECURSIVE HeldByContainers(_, _, _)
HeldByContainers(objs, n, id) ==
    IF n = 0 THEN 0
    ELSE (IF objs[n] # None THEN CountRef(objs[n][1].data.items, id) ELSE 0)
         + HeldByContainers(objs, n - 1, id)

\* live locations holding Ref(id): namespace / stack slots and container elements
LiveRefs(id) == CountRef(roots, id) + HeldByContainers(objects, Len(objects), id)

\* C2: the refcount of every occupied slot equals the number of live locations
\* that hold Ref(id) to it, every copy having made one inc_ref and every drop
\* one dec_ref.
C2_RefcountEqualsLiveRefs ==
    \A id \in ObjectIds : objects[id + 1] # None => Refcount(objects, id) = LiveRefs(id)

\* Ref(c) held by the containers the step from objs to objs2 tombstones
RECURSIVE FreedOcc(_, _, _, _)
FreedOcc(objs, objs2, n, c) ==
    IF n = 0 THEN 0
    ELSE (IF objs[n] # None /\ objs2[n] = None /\ IsContainer(objs[n][1].data)
          THEN CountRef(objs[n][1].data.items, c) ELSE 0)
         + FreedOcc(objs, objs2, n - 1, c)

\* C3: when dec_ref drives a container's refcount to zero the slot is tombstoned
\* and every Ref it holds receives exactly one decrement in the same call,
\* cascading to the children of every child that reaches zero.
C3_ChildrenDecremented ==
    [][Len(objects') = Len(objects) =>
         \A c \in ObjectIds :
            LET m == FreedOcc(objects, objects', Len(objects), c)
            IN  (m > 0 /\ objects[c + 1] # None) =>
                   /\ objects'[c + 1] # None =>
                         Refcount(objects', c) = Refcount(objects, c) - m
                   /\ objects'[c + 1] = None => Refcount(objects, c) <= m + 1]_vars

\* the sum of the refcounts of the occupied slots among 0..n-1
RECURSIVE RefcountSum(_, _)
RefcountSum(objs, n) ==
    IF n = 0 THEN 0
    ELSE (IF objs[n] # None THEN objs[n][1].refcount ELSE 0) + RefcountSum(objs, n - 1)

\* C7: when x * n on a list or tuple holding heap references fails in its final
\* allocate with MemoryError, every refcount the operation incremented is rolled
\* back, so the sum of all refcounts equals its value before the operation.
\* Checked under SpecMult.
C7_MultRollsBack ==
    [][(last'.op = "mult" /\ last'.res = RunErr("MemoryError")) =>
          RefcountSum(objects', Len(objects')) = RefcountSum(objects, Len(objects))]_vars

(***************************************************************************)
(* Claims about the tuple protocol, checked under SpecTuple (C6, C8, C9)   *)
(* and SpecEq (C10).                                                       *)
(***************************************************************************)
TupleAt(id) == Entry(objects, id).data

\* C6: for every Tuple built by Tuple::new or from_iter, contains_refs is true
\* exactly when at least one item is a Value::Ref, so contains_refs = false
\* implies the tuple has no Ref child.
C6_ContainsRefsIffRefItem ==
    \A id \in ObjectIds :
        (objects[id + 1] # None /\ TupleAt(id).kind = "Tuple") =>
            LET t == TupleAt(id)
                refs == {i \in 1..Len(t.items) : t.items[i].tag = "Ref"}
            IN  /\ t.contains_refs <=> refs # {}
                /\ ~t.contains_refs => \A c \in ObjectIds : CountRef(t.items, c) = 0

\* a tuple has been built whose only Ref is its last item
C6_Witness ==
    \E id \in ObjectIds :
        /\ objects[id + 1] # None
        /\ TupleAt(id).kind = "Tuple"
        /\ Len(TupleAt(id).items) = 2
        /\ TupleAt(id).items[1].tag = "Int" /\ TupleAt(id).items[2].tag = "Ref"
        /\ TupleAt(id).contains_refs

\* C8: py_getitem with an Int key i on a tuple of length n returns the item at
\* position i when 0 <= i < n and the item at position i + n when -n <= i < 0.
C8_IndexInRange ==
    (last.op = "getitem" /\ last.key.tag = "Int") =>
        LET items == TupleAt(last.id).items
            n == Len(items)
            i == last.key.v
        IN  /\ (0 <= i /\ i < n) =>
                  /\ last.res = RunOk(items[i + 1])
                  /\ roots[Len(roots)] = items[i + 1]
            /\ (0 - n <= i /\ i < 0) =>
                  /\ last.res = RunOk(items[i + n + 1])
                  /\ roots[Len(roots)] = items[i + n + 1]

\* t[-1] has just returned the last item of a tuple whose two items differ
C8_Witness ==
    /\ last.op = "getitem"
    /\ last.key = VInt(-1)
    /\ Len(TupleAt(last.id).items) = 2
    /\ TupleAt(last.id).items[1] # TupleAt(last.id).items[2]
    /\ last.res = RunOk(TupleAt(last.id).items[2])

\* C9: py_getitem fails with TypeError for every key that is not an Int and with
\* IndexError for every Int key i with i >= n or i < -n, and on both error paths
\* no refcount in the heap changes.
C9_ErrorsLeaveHeap ==
    [][last'.op = "getitem" =>
          LET n == Len(TupleAt(last'.id).items)
              key == last'.key
          IN  /\ key.tag # "Int" =>
                    (last'.res = RunErr("TypeError") /\ objects' = objects)
              /\ (key.tag = "Int" /\ (key.v >= n \/ key.v < 0 - n)) =>
                    (last'.res = RunErr("IndexError") /\ objects' = objects)]_vars

\* t[-n-1] has just failed with IndexError on a tuple that holds a Ref
C9_Witness ==
    /\ last.op = "getitem"
    /\ last.res = RunErr("IndexError")
    /\ TupleAt(last.id).contains_refs
    /\ last.key.v = 0 - Len(TupleAt(last.id).items) - 1

\* C10: py_eq returns true exactly when the two tuples have the same length and
\* every pair of items at the same position is equal under the item py_eq.
C10_EqIsStructural ==
    last.op = "py_eq" =>
        LET a == TupleAt(last.id).items
            b == TupleAt(last.key.v).items
        IN  last.eq <=> (/\ Len(a) = Len(b)
                         /\ \A i \in 1..Len(a) : value_py_eq(a[i], b[i], objects))

\* two tuples of different lengths, one a prefix of the other, compared unequal
C10_Witness ==
    /\ last.op = "py_eq"
    /\ ~last.eq
    /\ LET a == TupleAt(last.id).items
           b == TupleAt(last.key.v).items
       IN  /\ Len(a) = 1 /\ Len(b) = 2
           /\ a[1] = b[1]

(***************************************************************************)
(* The position tracker driven call by call: record, set_clause_state and  *)
(* next in every order.  hist is the log of the calls made and of what     *)
(* next returned.                                                          *)
(***************************************************************************)
\* calls logged per behaviour
MaxEvents == 5
\* largest node index recorded and largest For element index
MaxIndex == 1

ClauseStates == {CsIf(TRUE), CsIf(FALSE)} \cup {CsFor(i) : i \in 0..MaxIndex}

Event(ev, index, cs, pos) == [ev |-> ev, index |-> index, cs |-> cs, pos |-> pos]

InitTracker ==
    /\ objects = HeapNew
    /\ roots = <<>>
    /\ last = NoCall
    /\ hist = <<>>
    /\ tracker = PositionTrackerDefault
    /\ run = NoRun

Record(index) ==
    /\ Len(hist) < MaxEvents
    /\ tracker' = record(tracker, index)
    /\ hist' = Append(hist, Event("record", index, CsNone, PositionDefault))
    /\ UNCHANGED <<objects, roots, last, run>>

SetClauseState(cs) ==
    /\ Len(hist) < MaxEvents
    /\ tracker' = set_clause_state(tracker, cs)
    /\ hist' = Append(hist, Event("set_clause_state", 0, cs, PositionDefault))
    /\ UNCHANGED <<objects, roots, last, run>>

NextPosition ==
    /\ Len(hist) < MaxEvents
    /\ LET r == next(tracker)
       IN  /\ tracker' = r.tracker
           /\ hist' = Append(hist, Event("next", 0, CsNone, r.pos))
    /\ UNCHANGED <<objects, roots, last, run>>

NextTracker ==
    \/ \E index \in 0..MaxIndex : Record(index)
    \/ \E cs \in ClauseStates : SetClauseState(cs)
    \/ NextPosition

SpecTracker == InitTracker /\ [][NextTracker]_vars

\* Reading the log from entry i on: pending lists the positions recorded and not
\* yet returned, cs the clause state set since the last record.  TRUE when every
\* next in the log returned the last pending position, or the default position
\* when nothing was pending.
RECURSIVE NextsAreLifo(_, _, _, _)
NextsAreLifo(log, i, pending, cs) ==
    IF i > Len(log) THEN TRUE
    ELSE LET e == log[i]
         IN  CASE e.ev = "record" ->
                    NextsAreLifo(log, i + 1, Append(pending, Position(e.index, cs)), CsNone)
               [] e.ev = "set_clause_state" ->
                    NextsAreLifo(log, i + 1, pending, e.cs)
               [] OTHER ->
                    IF pending = <<>>
                    THEN e.pos = PositionDefault /\ NextsAreLifo(log, i + 1, pending, cs)
                    ELSE /\ e.pos = pending[Len(pending)]
                         /\ NextsAreLifo(log, i + 1,
                                         SubSeq(pending, 1, Len(pending) - 1), cs)

\* C11: successive next() calls return the recorded positions last recorded
\* first, each exactly once, and the default position (index 0, no clause state)
\* once the stack is empty.
C11_NextPopsInReverse == NextsAreLifo(hist, 1, <<>>, CsNone)

\* two different positions were recorded; three next() calls then returned the
\* second, the first and the default position
C11_Witness ==
    /\ Len(hist) = 5
    /\ hist[1].ev = "record" /\ hist[2].ev = "record"
    /\ hist[1].index # hist[2].index
    /\ hist[3].ev = "next" /\ hist[4].ev = "next" /\ hist[5].ev = "next"
    /\ hist[3].pos = Position(hist[2].index, CsNone)
    /\ hist[4].pos = Position(hist[1].index, CsNone)
    /\ hist[5].pos = PositionDefault
    /\ tracker.stack = <<>>

(***************************************************************************)
(* Programs that call the external function func inside nested If and For  *)
(* statements, started, suspended at each call and resumed with a reply of *)
(* the host.  roots is the namespace (x, y, i), hist the trace of the run, *)
(* tracker the tracker the paused run keeps.                               *)
(***************************************************************************)
\* range(MaxRange) is what the For statements iterate over
MaxRange == 3

X == 0
Y == 1
I == 2
Func(args) == ECall(args)
Lit(i) == EConst(VInt(i))

\* func(1)
ProgCall == <<NReturn(1, Func(<<Lit(1)>>))>>

\* x = 1
\* if x:
\*     x = 0; y = func(x); y += 1
\* else:
\*     y = 5
\* y
ProgIf ==
    <<NAssign(1, X, Lit(1)),
      NIf(2, EName(X),
          <<NAssign(3, X, Lit(0)), NAssign(4, Y, Func(<<EName(X)>>)),
            NOpAssign(5, Y, "Add", Lit(1))>>,
          <<NAssign(6, Y, Lit(5))>>),
      NReturn(7, EName(Y))>>

\* x = 0
\* for i in range(MaxRange):
\*     y = func(i, x); x += y
\* x
ProgFor ==
    <<NAssign(1, X, Lit(0)),
      NFor(2, I, EConst(VRange(MaxRange)),
           <<NAssign(3, Y, Func(<<EName(I), EName(X)>>)), NOpAssign(4, X, "Add", EName(Y))>>),
      NReturn(5, EName(X))>>

\* x = 0
\* for i in range(MaxRange):
\*     if i:
\*         x += 1; i = 0; y = func(x); x += y
\*     else:
\*         y = func(i); x += 1
\*     x += 1
\* x
ProgForIf ==
    <<NAssign(1, X, Lit(0)),
      NFor(2, I, EConst(VRange(MaxRange)),
           <<NIf(3, EName(I),
                 <<NOpAssign(4, X, "Add", Lit(1)), NAssign(5, I, Lit(0)),
                   NAssign(6, Y, Func(<<EName(X)>>)), NOpAssign(7, X, "Add", EName(Y))>>,
                 <<NAssign(8, Y, Func(<<EName(I)>>)), NOpAssign(9, X, "Add", Lit(1))>>),
             NOpAssign(10, X, "Add", Lit(1))>>),
      NReturn(11, EName(X))>>

\* x = 0
\* if x:
\*     y = 1
\* else:
\*     for i in range(MaxRange):
\*         x = 1
\*         if x:
\*             y = func(i); x += y
\* x
ProgIfForIf ==
    <<NAssign(1, X, Lit(0)),
      NIf(2, EName(X),
          <<NAssign(3, Y, Lit(1))>>,
          <<NFor(4, I, EConst(VRange(MaxRange)),
                 <<NAssign(5, X, Lit(1)),
                   NIf(6, EName(X),
                       <<NAssign(7, Y, Func(<<EName(I)>>)), NOpAssign(8, X, "Add", EName(Y))>>,
                       <<>>)>>)>>),
      NReturn(9, EName(X))>>

\* x = 1; x += 2; x
ProgAdd == <<NAssign(1, X, Lit(1)), NOpAssign(2, X, "Add", Lit(2)), NReturn(3, EName(X))>>

\* x = func(1); y = func(x); y
ProgTwoCalls ==
    <<NAssign(1, X, Func(<<Lit(1)>>)), NAssign(2, Y, Func(<<EName(X)>>)), NReturn(3, EName(Y))>>

SuspendingPrograms ==
    <<ProgCall, ProgIf, ProgFor, ProgForIf, ProgIfForIf, ProgAdd, ProgTwoCalls>>

\* what the host answers
Replies == {VInt(0), VInt(1), VInt(7)}

\* the namespace a run starts with: every name undefined
NewNamespace == <<VNone, VNone, VNone>>

\* run: the program, whether the run is ready, paused or done, the exit it
\* stopped with, the replies given so far, and the deepest position stack a
\* pause has left
Progress(prog, phase, exit, given, depth) ==
    [prog |-> prog, phase |-> phase, exit |-> exit, given |-> given, depth |-> depth]

InitResume ==
    /\ objects = HeapNew
    /\ roots = NewNamespace
    /\ last = NoCall
    /\ hist = <<>>
    /\ tracker = PositionTrackerDefault
    /\ run \in {Progress(p, "ready", ExitNone, <<>>, 0) : p \in 1..Len(SuspendingPrograms)}

\* the state after the frame has run until its next exit
AfterExecute(r, given) ==
    /\ r.tag = "Ok"
    /\ roots' = r.fs.ns
    /\ hist' = r.fs.trace
    /\ tracker' = r.fs.tracker
    /\ run' = Progress(run.prog,
                       IF r.exit.tag = "ExternalCall" THEN "paused" ELSE "done",
                       r.exit, given,
                       IF Len(r.fs.tracker.stack) > run.depth
                       THEN Len(r.fs.tracker.stack) ELSE run.depth)
    /\ UNCHANGED <<objects, last>>

\* start: the frame is run from the first node with a tracker that records
Start ==
    /\ run.phase = "ready"
    /\ AfterExecute(TrackedExecute(FrameState(roots, PositionTrackerDefault, <<>>, <<>>),
                                   SuspendingPrograms[run.prog]),
                    <<>>)

\* resume: the frame is run again with the recorded position stack and the
\* reply of the host
Resume(reply) ==
    /\ run.phase = "paused"
    /\ AfterExecute(TrackedExecute([FrameState(roots, PositionTrackerFrom(tracker.stack),
                                               <<reply>>, <<>>)
                                       EXCEPT !.trace = hist],
                                   SuspendingPrograms[run.prog]),
                    Append(run.given, reply))

NextResume ==
    \/ Start
    \/ \E reply \in Replies : Resume(reply)

SpecResume == InitResume /\ [][NextResume]_vars

\* the same program run from the first node without a recording tracker, the
\* external function answering on the spot with the replies given so far
Unsuspended(prog, given) ==
    TrackedExecute(FrameState(NewNamespace, NoPositionTracker, <<>>, given),
                   SuspendingPrograms[prog])

\* C12: after a suspension inside nested If and For statements, resuming along
\* the recorded position stack continues after the suspension point, in the
\* branch taken and at the recorded element, and runs no node a second time: the
\* namespace, the trace of completed nodes and the exit are those of the same
\* program run without suspension.
C12_ResumeContinues ==
    run.phase \in {"paused", "done"} =>
        LET ref == Unsuspended(run.prog, run.given)
        IN  /\ ref.tag = "Ok"
            /\ roots = ref.fs.ns
            /\ hist = ref.fs.trace
            /\ run.exit = ref.exit

\* a run suspended under three nested blocks and resumed more than once is done
C12_Witness ==
    /\ run.phase = "done"
    /\ run.depth >= 4
    /\ Len(run.given) >= 2
    /\ run.exit.tag = "Return"

(***************************************************************************)
(* A paused run is dumped, the bytes are truncated or damaged, and load is *)
(* called on them.  hist is the byte buffer.                               *)
(***************************************************************************)
\* bytes damaged per behaviour
MaxEdits == 1
\* longest dump looked at
MaxDumpLen == 16

\* the paused run as dump sees it
CurrentSnapshot ==
    Snapshot(run.prog,
             [i \in 1..Len(objects) |-> IF objects[i] = None THEN 0 ELSE objects[i][1].refcount],
             roots, tracker.stack)

\* values written over a byte: small variant indexes and lengths, and 0xFF
ByteSample == {0, 1, 4, 255}
\* the bytes of bug5_snapshot_deserialization_garbage_bytes
GarbageBytes == <<255, 254, 253, 252, 251, 250, 0, 1, 2, 3>>

\* from: what was done to the bytes that were loaded
CodecCall(op, edits, res) == [op |-> op, edits |-> edits, res |-> res, from |-> "-"]

InitCodec ==
    /\ objects = HeapNew
    /\ roots = NewNamespace
    /\ last = CodecCall("none", 0, LoadErr)
    /\ hist = <<>>
    /\ tracker = PositionTrackerDefault
    /\ run \in {Progress(p, "ready", ExitNone, <<>>, 0) : p \in 1..Len(SuspendingPrograms)}

\* run.start(...): the program runs until it calls func; the trace is not kept
StartToPause ==
    /\ run.phase = "ready"
    /\ LET r == TrackedExecute(FrameState(roots, PositionTrackerDefault, <<>>, <<>>),
                               SuspendingPrograms[run.prog])
       IN  /\ r.tag = "Ok"
           /\ r.exit.tag = "ExternalCall"
           /\ roots' = r.fs.ns
           /\ tracker' = r.fs.tracker
           /\ run' = Progress(run.prog, "paused", r.exit, <<>>, Len(r.fs.tracker.stack))
    /\ UNCHANGED <<objects, last, hist>>

\* progress.dump()
Dump ==
    /\ run.phase = "paused"
    /\ last.op = "none"
    /\ hist' = dump(CurrentSnapshot)
    /\ last' = CodecCall("dump", 0, LoadErr)
    /\ UNCHANGED <<objects, roots, tracker, run>>

\* &serialized[..k]
Truncate(k) ==
    /\ last.op = "dump"
    /\ k < Len(hist)
    /\ hist' = SubSeq(hist, 1, k)
    /\ last' = CodecCall("truncate", 0, LoadErr)
    /\ UNCHANGED <<objects, roots, tracker, run>>

\* serialized[i] ^= 0xFF
Flip(i) ==
    /\ last.op \in {"dump", "edit"}
    /\ last.edits < MaxEdits
    /\ i \in 1..Len(hist)
    /\ hist' = [hist EXCEPT ![i] = 255 - @]
    /\ last' = CodecCall("edit", last.edits + 1, LoadErr)
    /\ UNCHANGED <<objects, roots, tracker, run>>

\* a crafted snapshot: one byte of the dump replaced
Overwrite(i, byte) ==
    /\ last.op \in {"dump", "edit"}
    /\ last.edits < MaxEdits
    /\ i \in 1..Len(hist)
    /\ hist[i] # byte
    /\ hist' = [hist EXCEPT ![i] = byte]
    /\ last' = CodecCall("edit", last.edits + 1, LoadErr)
    /\ UNCHANGED <<objects, roots, tracker, run>>

\* bytes that never were a dump
Garbage(k) ==
    /\ last.op = "none"
    /\ hist' = SubSeq(GarbageBytes, 1, k)
    /\ last' = CodecCall("garbage", 0, LoadErr)
    /\ UNCHANGED <<objects, roots, tracker, run>>

\* RunProgress::load(bytes)
Load ==
    /\ last.op \in {"dump", "truncate", "edit", "garbage"}
    /\ last' = [CodecCall("load", last.edits, load(hist)) EXCEPT !.from = last.op]
    /\ UNCHANGED <<objects, roots, hist, tracker, run>>

NextCodec ==
    \/ StartToPause
    \/ Dump
    \/ \E k \in 0..MaxDumpLen : Truncate(k)
    \/ \E i \in 1..MaxDumpLen : Flip(i)
    \/ \E i \in 1..MaxDumpLen, byte \in ByteSample : Overwrite(i, byte)
    \/ \E k \in 0..Len(GarbageBytes) : Garbage(k)
    \/ Load

SpecCodec == InitCodec /\ [][NextCodec]_vars

\* every heap id the state refers to names an object of its heap, and its
\* program is one that exists
ValidSnapshot(snap) ==
    /\ snap.prog \in 1..Len(SuspendingPrograms)
    /\ \A i \in 1..Len(snap.ns) :
          IsRef(snap.ns[i]) => /\ snap.ns[i].v < Len(snap.heap)
                               /\ snap.heap[snap.ns[i].v + 1] > 0

\* the bytes are what dump writes for some paused run
IsValidDump(b) ==
    LET r == load(b)
    IN  r.tag = "Ok" /\ dump(r.snap) = b /\ ValidSnapshot(r.snap)

\* C13: load returns Err for every truncated prefix of a valid dump and for
\* every byte sequence that is not a valid dump.
C13_LoadRejectsInvalidBytes ==
    last.op = "load" => (last.res.tag = "Ok" => IsValidDump(hist))

(***************************************************************************)
(* A paused run is dumped and loaded again before it is resumed.           *)
(***************************************************************************)
\* dump and load rounds per behaviour
MaxLoads == 1

\* load(dump(progress)): the run goes on from the decoded state, its tracker
\* built from the decoded position stack
DumpLoad ==
    /\ run.phase = "paused"
    /\ last.id < MaxLoads
    /\ LET r == load(dump(CurrentSnapshot))
       IN  /\ r.tag = "Ok"
           /\ roots' = r.snap.ns
           /\ tracker' = PositionTrackerFrom(r.snap.stack)
           /\ run' = [run EXCEPT !.prog = r.snap.prog]
    /\ last' = Call("load", last.id + 1, Err("-"))
    /\ UNCHANGED <<objects, hist>>

NextSnapshot ==
    \/ Start
    \/ \E reply \in Replies : Resume(reply)
    \/ DumpLoad

SpecSnapshot == InitResume /\ [][NextSnapshot]_vars

\* The outcome a run ends with when it is resumed with reply at this and at
\* every later suspension
RECURSIVE TerminalOutcome(_, _, _, _)
TerminalOutcome(prog, ns, t, reply) ==
    LET r == TrackedExecute(FrameState(ns, t, <<reply>>, <<>>), SuspendingPrograms[prog])
    IN  IF r.tag = "Ok" /\ r.exit.tag = "ExternalCall"
        THEN TerminalOutcome(prog, r.fs.ns, r.fs.tracker, reply)
        ELSE [tag |-> r.tag, exit |-> r.exit, ns |-> r.fs.ns]

RECURSIVE NodeOnStack(_, _, _)
NodeOnStack(nodes, stack, k) ==
    LET node == nodes[stack[k].index + 1]
    IN  IF k < 1 \/ stack[k].index >= Len(nodes) THEN NPass(0)
        ELSE IF k = 1 THEN node
        ELSE NodeOnStack(IF node.kind = "If" /\ stack[k].clause_state = CsIf(FALSE)
                         THEN node.or_else ELSE node.body,
                         stack, k - 1)
SuspendedNode == NodeOnStack(SuspendingPrograms[run.prog], tracker.stack, Len(tracker.stack))

\* the exit of a paused run is an external call, and the trace ends with the
\* evaluation of every argument of the call, first to last, giving the values
\* the exit carries
ArgsEvaluated ==
    LET n == Len(SuspendedNode.expr.args)
        k == Len(hist) - n
    IN  /\ run.exit.tag = "ExternalCall"
        /\ SuspendedNode.expr.e = "Call"
        /\ Len(run.exit.args) = n
        /\ k >= 0
        /\ \A j \in 1..n : /\ hist[k + j].ev = "arg"
                           /\ hist[k + j].id = j
                           /\ run.exit.args[j].v = hist[k + j].v

\* a step that resumes the paused run with reply: the call is not evaluated a
\* second time, and the node of the call gets reply as the value of the call
ReplyObserved(reply) ==
    LET node == SuspendedNode
    IN  IF node.kind = "Return"
        THEN hist' = hist /\ run'.exit = ExitReturn(reply)
        ELSE /\ Len(hist') > Len(hist)
             /\ hist'[Len(hist) + 1] = TraceEvent("done", 0, tracker.stack[1].index,
                                                  node.nid, reply.v)

\* C15: a run that calls an external function suspends with an external-call
\* exit only after all the arguments of the call have been evaluated, and on
\* resume with v the call evaluates to v at the program point of the call;
\* func(1) resumed with 7 completes with 7.
C15_CallSuspendsAfterArgs ==
    [][/\ run'.phase = "paused" => ArgsEvaluated'
       /\ (run.phase = "paused" /\ Len(run'.given) > Len(run.given))
             => ReplyObserved(run'.given[Len(run'.given)])
       /\ (run'.phase = "done" /\ run'.prog = 1)
             => run'.exit = ExitReturn(run'.given[1])]_vars

\* func(1) resumed with 7 has completed with 7
C15_Witness ==
    /\ run.prog = 1
    /\ run.phase = "done"
    /\ run.given = <<VInt(7)>>
    /\ run.exit = ExitReturn(VInt(7))
    /\ hist = <<TraceEvent("arg", 0, 1, 0, 1)>>

(***************************************************************************)
(* Blocks of statements parsed and executed by RunFrame::execute           *)
(* (src/src/run.rs).  run holds the source statements, roots the           *)
(* namespace, hist the trace of the execution, last its result.            *)
(***************************************************************************)
\* longest block executed
MaxBlock == 3

\* a statement of the source text: the node the parser makes of it, and the
\* expression after `from` when it is `raise X from Y`
Stmt(node, cause) == [node |-> node, cause |-> cause]

\* the parser keeps exc of a raise statement and ignores its cause
\* (Stmt::Raise(ast::StmtRaise { exc, .. }))
ParseStatement(stmt) == stmt.node
Parse(src) == [i \in 1..Len(src) |-> ParseStatement(src[i])]

\* the statements blocks are made of
Statements ==
    {Stmt(n, ENone) :
        n \in {NExpr(1, Lit(1)),
               \* x = 1 + 2
               NAssign(2, X, EOp(Lit(1), "Add", Lit(2))),
               \* x += 2
               NOpAssign(3, X, "Add", Lit(2)),
               \* x @= 2
               NOpAssign(4, X, "MatMult", Lit(2)),
               \* x = 1 @ 2
               NAssign(5, X, EOp(Lit(1), "MatMult", Lit(2))),
               NReturn(6, EName(X)),
               NReturnNone(7),
               \* raise ValueError
               NRaise(8, EConst(VExc(1))),
               \* if x: return 5 else: y = 3
               NIf(9, EName(X), <<NReturn(10, Lit(5))>>, <<NAssign(11, Y, Lit(3))>>),
               \* for i in range(2): x += i
               NFor(12, I, EConst(VRange(2)), <<NOpAssign(13, X, "Add", EName(I))>>),
               \* for i in range(2): return i
               NFor(15, I, EConst(VRange(2)), <<NReturn(16, EName(I))>>),
               \* raise 1
               NRaise(17, Lit(1)),
               \* raise
               NRaise(18, ENone)}}
    \cup
    \* raise ValueError from TypeError
    {Stmt(NRaise(14, EConst(VExc(1))), EConst(VExc(2)))}

\* what execute returned
FrameCall(op, r) == [op |-> op, tag |-> r.tag, exit |-> r.exit, err |-> r.err]

SourceRun(src, phase) == [src |-> src, phase |-> phase]

InitFrame ==
    /\ objects = HeapNew
    /\ roots = NewNamespace
    /\ last = FrameCall("none", FrameOk(0, ExitNone))
    /\ hist = <<>>
    /\ tracker = PositionTrackerDefault
    /\ run \in {SourceRun(src, "ready") : src \in SeqsUpTo(Statements, MaxBlock)}

\* RunFrame::new(namespace).execute(nodes)
Execute ==
    /\ run.phase = "ready"
    /\ LET r == execute(FrameState(roots, NoPositionTracker, <<>>, <<>>), Parse(run.src))
       IN  /\ roots' = r.fs.ns
           /\ hist' = r.fs.trace
           /\ last' = FrameCall("execute", r)
    /\ run' = SourceRun(run.src, "done")
    /\ UNCHANGED <<objects, tracker>>

NextFrame == Execute

SpecFrame == InitFrame /\ [][NextFrame]_vars

\* the indexes of the nodes the execute call numbered call dispatched, in order
RECURSIVE Dispatched(_, _, _)
Dispatched(trace, i, call) ==
    IF i > Len(trace) THEN <<>>
    ELSE (IF trace[i].ev = "node" /\ trace[i].call = call THEN <<trace[i].id>> ELSE <<>>)
         \o Dispatched(trace, i + 1, call)

\* the statement at which the outermost execute call stopped
LastStatement == run.src[Len(Dispatched(hist, 1, 1))]

\* C16: evaluating the binary @ operator returns a TypeError to the host and
\* never panics.
C16_MatMulReturnsTypeError ==
    (/\ last.op = "execute"
     /\ Dispatched(hist, 1, 1) # <<>>
     /\ LastStatement.node.kind = "Assign"
     /\ LastStatement.node.expr.op = "MatMult")
        => /\ last.tag = "Err"
           /\ last.err.kind = "Exc"
           /\ last.err.ty = "TypeError"

\* C17: an augmented assignment with @= (x = 1, then x @= 2) produces a
\* well-typed error, a compile error or a run-time TypeError, and never a panic.
C17_IMatMulIsTypedError ==
    (/\ last.op = "execute"
     /\ Dispatched(hist, 1, 1) # <<>>
     /\ LastStatement.node.kind = "OpAssign"
     /\ LastStatement.node.op = "MatMult")
        => /\ last.tag = "Err"
           /\ last.err.kind = "Exc"
           /\ last.err.ty = "TypeError"

\* C18: executing `raise X from Y` records Y as the cause on the raised
\* exception X.
C18_RaiseFromKeepsCause ==
    (/\ last.op = "execute"
     /\ Dispatched(hist, 1, 1) # <<>>
     /\ LastStatement.node.kind = "Raise"
     /\ LastStatement.cause.e # "None")
        => /\ last.tag = "Err"
           /\ last.err.ty = ExcName(LastStatement.node.expr.v.v)
           /\ last.err.cause = ExcName(LastStatement.cause.v.v)

\* a node yields an exit when execute_node returns Some(exit) for it
YieldsExit(node) == node.kind \in {"Return", "ReturnNone"}

\* C19: execute runs the nodes of a block in index order, each at most once per
\* call; it stops at the first node that yields an exit and returns that exit,
\* and returns ReturnNone when every node completes without an exit.
C19_ExecuteInOrderUntilExit ==
    last.op = "execute" =>
        LET nodes == Parse(run.src)
            top == Dispatched(hist, 1, 1)
            calls == {hist[i].call : i \in 1..Len(hist)}
        IN  /\ \A c \in calls :
                  LET d == Dispatched(hist, 1, c)
                  IN  \A j \in 1..Len(d) : d[j] = j - 1
            /\ Len(top) <= Len(nodes)
            /\ \A j \in 1..(Len(top) - 1) : ~YieldsExit(nodes[j])
            /\ last.tag = "Ok" =>
                  IF top # <<>> /\ YieldsExit(nodes[Len(top)])
                  THEN last.exit.tag = nodes[Len(top)].kind
                  ELSE Len(top) = Len(nodes) /\ last.exit = ExitReturnNone

\* a block of three nodes was left by the Return at index 1 after the
\* assignment at index 0; the node at index 2 was not dispatched
C19_Witness ==
    /\ last.op = "execute"
    /\ Len(run.src) = 3
    /\ run.src[1].node.kind = "Assign"
    /\ run.src[2].node.kind = "Return"
    /\ run.src[3].node.kind = "OpAssign"
    /\ Dispatched(hist, 1, 1) = <<0, 1>>
    /\ last.tag = "Ok"
    /\ last.exit = ExitReturn(VInt(3))
    /\ roots[X + 1] = VInt(3)

(***************************************************************************)
(* A persistent Executor run again and again: every run clears the heap,   *)
(* starts from a fresh namespace holding the argument, and executes the    *)
(* same nodes.  hist keeps what the earlier runs returned and issued.      *)
(***************************************************************************)
\* runs per behaviour
MaxRuns == 3
\* the argument is range(n) for n up to MaxArg
MaxArg == 2

\* 1 + 2
ExecAdd == <<NReturn(1, EOp(Lit(1), "Add", Lit(2)))>>

\* y = 'hello'
\* for i in arg:
\*     y = 'hello'
\* y
ExecStrings ==
    <<NAssign(1, Y, EStr),
      NFor(2, I, EName(X), <<NAssign(3, Y, EStr)>>),
      NReturn(4, EName(Y))>>

ExecutorPrograms == <<ExecAdd, ExecStrings>>

ExecutorCall(op, arg, tag, exit) == [op |-> op, arg |-> arg, tag |-> tag, exit |-> exit]
NoResult == ExecutorCall("none", 0, "-", ExitNone)

\* first[n]: what the first run with range(n) returned; issued: the ids issued
\* by all runs so far; latest: the ids issued by the latest run
ExecutorHistory(runs, first, issued, latest) ==
    [runs |-> runs, first |-> first, issued |-> issued, latest |-> latest]

InitExecutor ==
    /\ objects = HeapNew
    /\ roots = NewNamespace
    /\ last = NoResult
    /\ hist = ExecutorHistory(0, [n \in 0..MaxArg |-> NoResult], {}, {})
    /\ tracker = PositionTrackerDefault
    /\ run \in {[prog |-> p, phase |-> "ready"] : p \in 1..Len(ExecutorPrograms)}

\* Executor::run(args): the heap is cleared, the namespace is made of the
\* arguments, the nodes are executed
ExecutorRun(n) ==
    /\ hist.runs < MaxRuns
    /\ LET cleared == clear(objects)
           fs == [FrameState(<<VRange(n), VNone, VNone>>, NoPositionTracker, <<>>, <<>>)
                     EXCEPT !.heap = cleared]
           r == execute(fs, ExecutorPrograms[run.prog])
           res == ExecutorCall("run", n, r.tag, r.exit)
           ids == Len(cleared)..(Len(r.fs.heap) - 1)
       IN  /\ objects' = r.fs.heap
           /\ roots' = r.fs.ns
           /\ last' = res
           /\ hist' = ExecutorHistory(hist.runs + 1,
                                      IF hist.first[n].op = "none"
                                      THEN [hist.first EXCEPT ![n] = res] ELSE hist.first,
                                      hist.issued \cup ids, ids)
    /\ UNCHANGED <<tracker, run>>

\* heap.get(id) between two runs
ExecutorGet(id) ==
    /\ last.op = "run"
    /\ last' = ExecutorCall("get", id, get(objects, id).tag, ExitNone)
    /\ UNCHANGED <<objects, roots, hist, tracker, run>>

NextExecutor ==
    \/ \E n \in 0..MaxArg : ExecutorRun(n)
    \/ \E id \in 0..(MaxArg + 1) : ExecutorGet(id)

SpecExecutor == InitExecutor /\ [][NextExecutor]_vars

\* C20: running a persistent Executor repeatedly on the same program and
\* arguments returns the same result every time; every id issued in an earlier
\* run is invalid (get returns InvalidId) until it is issued again, and no
\* object of an earlier run is observable in a later one.
C20_RunsAreIndependent ==
    /\ last.op = "run" => last = hist.first[last.arg]
    /\ \A id \in hist.issued \ hist.latest : get(objects, id) = Err("InvalidId")
    /\ \A id \in 0..(Len(objects) - 1) : Occupied(objects, id) => id \in hist.latest
    /\ last.op = "get" =>
          (last.tag = "Ok" <=> last.arg \in hist.latest)

\* three runs are done, one of them returned a reference, the latest issued
\* ids of its own, and get has just answered InvalidId for an id that only an
\* earlier run had issued
C20_Witness ==
    /\ hist.runs = 3
    /\ last.op = "get"
    /\ last.tag = "Err"
    /\ last.arg \in hist.issued \ hist.latest
    /\ hist.latest # {}
    /\ \E n \in 0..MaxArg : hist.first[n].exit.val.tag = "Ref"

\* the trace events at which a nested execute call (the body of an If or of a
\* For) dispatched a Return node
NestedReturns ==
    {i \in 1..Len(hist) : hist[i].ev = "node" /\ hist[i].call # 1 /\ hist[i].nid \in {10, 16}}

\* C21: a Return node reached inside the body of an If or of a For ends the
\* enclosing frame's execution with Return(value): no later node of the frame
\* and no further loop iteration is executed after it.
C21_NestedReturnEndsFrame ==
    (last.op = "execute" /\ NestedReturns # {}) =>
        /\ last.tag = "Ok"
        /\ last.exit.tag = "Return"
        /\ \A i \in NestedReturns :
              \A j \in (i + 1)..Len(hist) : hist[j].ev \notin {"node", "iter"}

(***************************************************************************)
(* The loop of the benchmark: v = ''; for i in range(n): if i % m == 0:    *)
(* v += 'x'; len(v), run for several n and m.                              *)
(***************************************************************************)
\* the ranges tried besides the benchmark's: range(-1) .. range(MaxLoop)
MaxLoop == 27
\* range(1_000) and i % 13 of LOOP_MOD_13_CODE
BenchRange == 1000
BenchMod == 13

Moduli == {1, 2, 3, BenchMod}
Ranges == (-1..MaxLoop) \cup {BenchRange}

LoopMod(n, m) ==
    <<NAssign(1, X, EConst(VStr(0))),
      NFor(2, I, EConst(VRange(n)),
           <<NIf(3, EOp(EOp(EName(I), "Mod", Lit(m)), "Eq", Lit(0)),
                 <<NOpAssign(4, X, "Add", EConst(VStr(1)))>>,
                 <<>>)>>),
      NReturn(5, ELen(EName(X)))>>

LoopRun(n, m, phase) == [n |-> n, m |-> m, phase |-> phase]

InitLoop ==
    /\ objects = HeapNew
    /\ roots = NewNamespace
    /\ last = FrameCall("none", FrameOk(0, ExitNone))
    /\ hist = <<>>
    /\ tracker = PositionTrackerDefault
    /\ run \in {LoopRun(n, m, "ready") : n \in Ranges, m \in Moduli}

\* RunFrame::new(namespace).execute(nodes) on the loop program
ExecuteLoopMod ==
    /\ run.phase = "ready"
    /\ LET Done(r) ==
               /\ roots' = r.fs.ns
               /\ hist' = r.fs.trace
               /\ last' = FrameCall("execute", r)
       IN  Done(execute(FrameState(roots, NoPositionTracker, <<>>, <<>>),
                        LoopMod(run.n, run.m)))
    /\ run' = LoopRun(run.n, run.m, "done")
    /\ UNCHANGED <<objects, tracker>>

NextLoop == ExecuteLoopMod

SpecLoop == InitLoop /\ [][NextLoop]_vars

\* the values the loop target held on entering the body, in order
IsIter(e) == e.ev = "iter"
Bindings ==
    LET its == SelectSeq(hist, IsIter)
    IN  [j \in 1..Len(its) |-> its[j].v]

\* how often the body (the If numbered 3) was dispatched
BodyRuns == Len(SelectSeq(hist, LAMBDA e : e.ev = "node" /\ e.nid = 3))

\* C22: for_loop over Range(n) executes its body exactly max(n, 0) times,
\* binding the target to 0, 1, ..., n-1 in ascending order before each
\* iteration; so a loop over range(1000) whose body appends one character when
\* i % 13 == 0 ends with 77 characters.
C22_ForLoopRunsBodyNTimes ==
    last.op = "execute" =>
        LET times == IF run.n > 0 THEN run.n ELSE 0
        IN  /\ last.tag = "Ok"
            /\ BodyRuns = times
            /\ Bindings = [j \in 1..times |-> j - 1]
            /\ last.exit =
                   ExitReturn(VInt(Cardinality({i \in 0..(run.n - 1) : i % run.m = 0})))
            /\ (run.n = BenchRange /\ run.m = BenchMod) => last.exit = ExitReturn(VInt(77))

\* the benchmark's loop has run: a thousand iterations, 77 characters
C22_Witness ==
    /\ last.op = "execute"
    /\ run.n = BenchRange
    /\ run.m = BenchMod
    /\ Len(Bindings) = BenchRange
    /\ Bindings[BenchRange] = BenchRange - 1
    /\ roots[X + 1] = VStr(77)
    /\ last.exit = ExitReturn(VInt(77))

\* A write of the trace with the dispatch that was open when it was made: the
\* Assign or OpAssign node for a "write", the For node for an "iter"
TraceWrite(slot, val, owner) == [slot |-> slot, val |-> val, owner |-> owner]

\* the writes of the trace in order, and the dispatches that never completed
RECURSIVE ScanTrace(_, _, _, _)
ScanTrace(trace, i, open, writes) ==
    IF i > Len(trace) THEN [open |-> open, writes |-> writes]
    ELSE CASE trace[i].ev = "node" -> ScanTrace(trace, i + 1, Append(open, i), writes)
           [] trace[i].ev = "done" ->
                  ScanTrace(trace, i + 1, SubSeq(open, 1, Len(open) - 1), writes)
           [] trace[i].ev \in {"write", "iter"} ->
                  ScanTrace(trace, i + 1, open,
                            Append(writes, TraceWrite(trace[i].id, trace[i].val,
                                                      open[Len(open)])))
           [] OTHER -> ScanTrace(trace, i + 1, open, writes)

\* the namespace after the writes ws, made one after the other
RECURSIVE Replay(_, _, _)
Replay(ns, ws, i) ==
    IF i > Len(ws) THEN ns ELSE Replay([ns EXCEPT ![ws[i].slot + 1] = ws[i].val], ws, i + 1)

\* the nodes with a body
CompoundNids == {9, 12, 15}

\* the error each failing statement gives
ErrorOfNid(nid) ==
    CASE nid \in {8, 14} -> "ValueError"
      [] nid \in {3, 13, 17} -> "TypeError"
      [] nid \in {4, 18} -> "TodoError"
      [] OTHER -> "-"

\* execute returned the error of the node dispatched last: every dispatch that
\* did not complete encloses it, and nothing was dispatched, bound or written
\* after it
StoppedAtFailure(scan) ==
    /\ scan.open # <<>>
    /\ scan.open[Len(scan.open)] = Len(hist)
    /\ \A k \in 1..(Len(scan.open) - 1) : hist[scan.open[k]].nid \in CompoundNids
    /\ hist[Len(hist)].nid \notin CompoundNids
    /\ last.err.ty = ErrorOfNid(hist[Len(hist)].nid)

\* C23 as stated: if executing a node fails, execute returns that error at
\* once: no later node of the block, of any enclosing block, or of any
\* remaining loop iteration is executed, and the namespace keeps exactly the
\* writes made by the nodes that completed before the failure.
C23_ErrorKeepsOnlyCompletedWrites ==
    (last.op = "execute" /\ last.tag = "Err") =>
        LET scan == ScanTrace(hist, 1, <<>>, <<>>)
            open == {scan.open[k] : k \in 1..Len(scan.open)}
        IN  /\ StoppedAtFailure(scan)
            /\ roots = Replay(NewNamespace,
                              SelectSeq(scan.writes, LAMBDA w : w.owner \notin open), 1)

\* C23, amended: if executing a node fails, execute returns that error at once:
\* no later node of the block, of any enclosing block, or of any remaining loop
\* iteration is executed, and the namespace keeps exactly the writes made by
\* the nodes that completed before the failure together with the loop targets
\* bound by the For nodes that enclose the failing node.
C23_ErrorStopsExecution ==
    (last.op = "execute" /\ last.tag = "Err") =>
        LET scan == ScanTrace(hist, 1, <<>>, <<>>)
            open == {scan.open[k] : k \in 1..Len(scan.open)}
        IN  /\ StoppedAtFailure(scan)
            /\ \A k \in 1..Len(scan.writes) :
                  scan.writes[k].owner \in open => hist[scan.writes[k].owner].nid \in {12, 15}
            /\ roots = Replay(NewNamespace, scan.writes, 1)

\* if x: ... else: y = 3 completed, then the body of the for loop failed in its
\* first iteration on x += i, x being undefined: y and the loop target i are
\* bound, the third statement was not dispatched
C23_Witness ==
    /\ last.op = "execute"
    /\ last.tag = "Err"
    /\ last.err.ty = "TypeError"
    /\ Len(run.src) = 3
    /\ run.src[1].node.nid = 9
    /\ run.src[2].node.nid = 12
    /\ Dispatched(hist, 1, 1) = <<0, 1>>
    /\ hist[Len(hist)].nid = 13
    /\ roots = <<VNone, VInt(3), VInt(0)>>

\* the trace events at which a Raise node was dispatched
RaiseDispatches == {i \in 1..Len(hist) : hist[i].ev = "node" /\ hist[i].nid \in {8, 14, 17, 18}}

\* C24: executing a Raise node never completes normally: with an operand that
\* evaluates to an exception it returns that exception as an error carrying a
\* StackFrame built from the raise position, the frame name and the parent
\* frame; with an operand that is not an exception it returns TypeError; with
\* no operand it returns an internal error; in no case does it panic.
C24_RaiseNeverCompletes ==
    last.op = "execute" =>
        \A i \in RaiseDispatches :
            LET operand == Parse(run.src)[hist[i].id + 1].expr
            IN  /\ hist[i].call = 1
                /\ i = Len(hist)
                /\ last.tag = "Err"
                /\ CASE operand.e = "None" -> last.err.kind = "Internal"
                     [] operand.e = "Const" /\ operand.v.tag = "Exc" ->
                            /\ last.err.kind = "Exc"
                            /\ last.err.ty = ExcName(operand.v.v)
                            /\ last.err.framed
                            /\ last.err.frame = StackFrame(hist[i].nid, "<module>", "None")
                     [] OTHER ->
                            /\ last.err.kind = "Exc"
                            /\ last.err.ty = "TypeError"

\* x = 1 + 2 completed and raise ValueError, the second statement, ended the
\* frame with a ValueError whose StackFrame is at the raise statement
C24_Witness ==
    /\ last.op = "execute"
    /\ Len(run.src) = 3
    /\ run.src[1].node.nid = 2
    /\ run.src[2].node.nid = 8
    /\ Dispatched(hist, 1, 1) = <<0, 1>>
    /\ last.tag = "Err"
    /\ last.err = with_frame(ExcError("ValueError"), StackFrame(8, "<module>", "None"))
    /\ roots[X + 1] = VInt(3)

(***************************************************************************)
(* dec_ref turn by turn: the work stack is part of the state, and one      *)
(* action is one turn of its loop.  The heaps it starts from hold lists    *)
(* that refer to each other and to themselves.                             *)
(***************************************************************************)
\* slots of the heaps dec_ref is started on
MaxHeap == 2
\* largest refcount in those heaps
MaxHeld == 2

\* what a slot may hold: a tombstone, a Str, or a List of references
LoopSlots ==
    {None} \cup
    {Some(HeapObject(rc, data)) :
        rc \in 1..MaxHeld,
        data \in {StrData} \cup {ListData(<<VRef(i)>>) : i \in 0..(MaxHeap - 1)}
                           \cup {ListData(<<VRef(0), VRef(MaxHeap - 1)>>)}}

LoopHeaps == UNION {[1..n -> LoopSlots] : n \in 0..MaxHeap}

\* the call in progress: its argument, its work stack, and whether it runs
DecRefCall(phase, id, stack) == [phase |-> phase, id |-> id, stack |-> stack]

\* hist: the heap the call started on
DecRefHistory(before) == [before |-> before]

InitDecRef ==
    /\ objects \in LoopHeaps
    /\ roots = <<>>
    /\ last = NoCall
    /\ hist = DecRefHistory(objects)
    /\ tracker = PositionTrackerDefault
    /\ run = DecRefCall("idle", 0, <<>>)

\* let mut stack = vec![id];
DecRefEnter(id) ==
    /\ run.phase \in {"idle", "returned"}
    /\ run' = DecRefCall("loop", id, <<id>>)
    /\ hist' = DecRefHistory(objects)
    /\ last' = Call("dec_ref", id, Err("-"))
    /\ UNCHANGED <<objects, roots, tracker>>

\* while let Some(current) = stack.pop() { ... }
DecRefTurn ==
    /\ run.phase = "loop"
    /\ run.stack # <<>>
    /\ LET Turned(s) ==
               /\ objects' = s.objects
               /\ run' = [run EXCEPT !.stack = s.stack]
       IN  Turned(DecRefStep(objects, run.stack))
    /\ UNCHANGED <<roots, last, hist, tracker>>

\* the stack is empty: dec_ref returns
DecRefReturn ==
    /\ run.phase = "loop"
    /\ run.stack = <<>>
    /\ run' = [run EXCEPT !.phase = "returned"]
    /\ UNCHANGED <<objects, roots, last, hist, tracker>>

NextDecRef ==
    \/ \E id \in 0..MaxHeap : DecRefEnter(id)
    \/ DecRefTurn
    \/ DecRefReturn

SpecDecRef == InitDecRef /\ [][NextDecRef]_vars

\* dec_ref is straight-line code: a turn that can be taken is taken
FairDecRef == SpecDecRef /\ WF_vars(DecRefTurn) /\ WF_vars(DecRefReturn)

\* C25: dec_ref(id) terminates for every heap state and every id, including
\* object graphs that contain cycles and ids that are out of range or
\* tombstoned: its explicit work stack becomes empty after finitely many steps.
C25_DecRefTerminates ==
    /\ (run.phase = "loop") ~> (run.phase = "returned" /\ run.stack = <<>>)
    /\ [](run.phase = "returned" => objects = dec_ref(hist.before, run.id))

\* dec_ref(0) has returned on a heap where the lists 0 and 1 refer to each
\* other: slot 0 was taken and the call ended there
C25_Witness ==
    /\ run.phase = "returned"
    /\ run.id = 0
    /\ Len(hist.before) = 2
    /\ hist.before[1] = Some(HeapObject(1, ListData(<<VRef(1)>>)))
    /\ hist.before[2] = Some(HeapObject(1, ListData(<<VRef(0)>>)))
    /\ objects[1] = None

(***************************************************************************)
(* The clause state handed from set_clause_state to record.                *)
(***************************************************************************)
\* Reading the log backwards from entry i: the clause state of the last
\* set_clause_state that no record has followed, or none
RECURSIVE PendingClause(_, _)
PendingClause(log, i) ==
    IF i = 0 THEN CsNone
    ELSE IF log[i].ev = "set_clause_state" THEN log[i].cs
    ELSE IF log[i].ev = "record" THEN CsNone
    ELSE PendingClause(log, i - 1)

\* C26: a clause state given to set_clause_state is attached to exactly the
\* next position pushed by record and is then cleared: later record calls push
\* positions with no clause state until set_clause_state is called again, and a
\* second set_clause_state before the record replaces the first.
C26_ClauseStateGoesToNextRecord ==
    [][(Len(hist') = Len(hist) + 1 /\ hist'[Len(hist')].ev = "record") =>
          /\ Len(tracker'.stack) = Len(tracker.stack) + 1
          /\ tracker'.stack[Len(tracker'.stack)].clause_state =
                 PendingClause(hist, Len(hist))
          /\ tracker'.clause_state = CsNone
          /\ PendingClause(hist', Len(hist')) = CsNone]_vars

\* two set_clause_state calls, then two records: the first record took the
\* second clause state, the second record took none
C26_Witness ==
    /\ Len(hist) = 4
    /\ hist[1].ev = "set_clause_state" /\ hist[1].cs = CsIf(TRUE)
    /\ hist[2].ev = "set_clause_state" /\ hist[2].cs = CsFor(1)
    /\ hist[3].ev = "record"
    /\ hist[4].ev = "record"
    /\ Len(tracker.stack) = 2
    /\ tracker.stack[1].clause_state = CsFor(1)
    /\ tracker.stack[2].clause_state = CsNone

(***************************************************************************)
(* tuple(iterable) under a memory limit: the argument is handed to a       *)
(* ForIterator, the items are collected, the iterator is dropped and the   *)
(* tuple is allocated.                                                     *)
(***************************************************************************)
\* ForIterator::collect on a list or tuple: every item is cloned into a Vec;
\* it fails when the source has more than stop items, and then gives back the
\* items it had cloned
ForIteratorCollect(objs, items, stop) ==
    IF stop < Len(items)
    THEN [res |-> RunErr("ResourceError"), objects |-> objs, items |-> <<>>]
    ELSE [res |-> RunOk(VNone), objects |-> CloneAll(items, 1, objs), items |-> items]

\* Tuple::init with one argument v, which the iterator owns: the ? after collect
\* and the ? after allocate return the error as it is
TupleInit(objs, v, stop) ==
    LET Collected(c) ==
            IF c.res.tag = "Err" THEN [res |-> c.res, objects |-> c.objects]
            ELSE allocate_limited(drop_with_heap(v, c.objects), TupleNew(c.items))
    IN  Collected(ForIteratorCollect(objs, Entry(objs, v.v).data.items, stop))

\* items the collect is cut after; MaxTupleLen means it is not cut
Stops == 0..MaxTupleLen

\* y = tuple(x) on the list or tuple held by location loc: the argument is a
\* clone of x
CallTuple(loc, stop) ==
    /\ IsSeqRoot(loc)
    /\ Len(objects) < MaxObjects
    /\ Len(roots) < MaxRoots
    /\ LET id == roots[loc].v
           Returned(r) ==
               /\ \A c \in 0..(Len(objects) - 1) :
                      r.objects[c + 1] # None => Refcount(r.objects, c) <= MaxRefcount
               /\ objects' = r.objects
               /\ roots' = IF r.res.tag = "Ok" THEN Append(roots, r.res.val) ELSE roots
               /\ last' = TupleCall("tuple", id, VInt(stop), r.res, FALSE)
       IN  Returned(TupleInit(clone_with_heap(roots[loc], objects), roots[loc], stop))
    /\ UNCHANGED <<hist, tracker, run>>

NextInit ==
    \/ NewStr
    \/ \E items \in SeqsUpTo(RootValues, MaxTupleLen) : BuildList(items)
    \/ \E loc \in 1..Len(roots), stop \in Stops : CallTuple(loc, stop)
    \/ \E loc \in 1..Len(roots) : DropRoot(loc)

SpecInit == InitRefs /\ [][NextInit]_vars

\* C27: if tuple(iterable) fails, either while collecting the items or in the
\* final allocate, every refcount the call has incremented (the collected items
\* and the iterator's hold on its source) is rolled back before the error
\* surfaces, so the sum of all refcounts equals its value before the call.
C27_TupleInitRollsBack ==
    [][(last'.op = "tuple" /\ last'.res.tag = "Err") =>
          RefcountSum(objects', Len(objects')) = RefcountSum(objects, Len(objects))]_vars

\* the same for the final allocate alone
C27_AllocateFailureRollsBack ==
    [][(last'.op = "tuple" /\ last'.res = RunErr("MemoryError")) =>
          RefcountSum(objects', Len(objects')) = RefcountSum(objects, Len(objects))]_vars

(***************************************************************************)
(* py_dec_ref_ids applied to every tuple Tuple::new builds from a few      *)
(* items, on an empty stack and on a stack that already holds ids.         *)
(***************************************************************************)
\* items of the tuples py_dec_ref_ids is applied to
MaxItems == 3
\* heap ids the Ref items name
MaxChild == 1

ChildValues == {VInt(0), VNone} \cup {VRef(id) : id \in 0..MaxChild}

\* run: the tuple, the stack handed in, and whether the call has been made
IdsCall(tuple, stack, called) == [tuple |-> tuple, stack |-> stack, called |-> called]

InitIds ==
    /\ objects = HeapNew
    /\ roots = <<>>
    /\ last = NoCall
    /\ hist \in {<<>>, <<MaxChild>>}
    /\ tracker = PositionTrackerDefault
    /\ \E items \in SeqsUpTo(ChildValues, MaxItems) :
          run = IdsCall(TupleNew(items), hist, FALSE)

\* tuple.py_dec_ref_ids(&mut stack); hist keeps the stack as it was handed in
PyDecRefIds ==
    /\ ~run.called
    /\ run' = IdsCall(run.tuple, py_dec_ref_ids(run.tuple, run.stack), TRUE)
    /\ UNCHANGED <<objects, roots, last, hist, tracker>>

NextIds == PyDecRefIds

SpecIds == InitIds /\ [][NextIds]_vars

\* the ids of the Ref items of a sequence, in item order
RefIdsOf(items) ==
    LET refs == SelectSeq(items, IsRef)
    IN  [i \in 1..Len(refs) |-> refs[i].v]

\* C28: py_dec_ref_ids on a tuple pushes onto the stack exactly the ids of the
\* tuple's Ref items, once per occurrence and in item order, and pushes nothing
\* when contains_refs is false; the skip never omits a Ref child.
C28_PushesExactlyRefIds ==
    run.called =>
        /\ run.stack = hist \o RefIdsOf(run.tuple.items)
        /\ ~run.tuple.contains_refs =>
              /\ run.stack = hist
              /\ \A i \in 1..Len(run.tuple.items) : ~IsRef(run.tuple.items[i])

\* (1, Ref(1), Ref(0)) pushed 1 then 0 onto a stack that held an id, the Int
\* item in front of the Refs pushed nothing
C28_Witness ==
    /\ run.called
    /\ run.tuple.items = <<VInt(0), VRef(1), VRef(0)>>
    /\ hist = <<MaxChild>>
    /\ run.stack = <<MaxChild, 1, 0>>

(***************************************************************************)
(* inc_ref and dec_ref on ids that name no object, checked under Spec.     *)
(***************************************************************************)
\* C29: inc_ref and dec_ref called with an id that is out of range or
\* tombstoned leave the whole heap unchanged and do not panic; in particular
\* inc_ref never makes a tombstoned slot occupied again.
C29_DeadIdLeavesHeap ==
    [][\A id \in ArenaIds :
          ((IncRef(id) \/ DecRef(id)) /\ ~Occupied(objects, id)) =>
              /\ objects' = objects
              /\ InBounds(objects, id) => objects'[id + 1] = None]_vars

\* inc_ref has just returned on a heap whose two slots are both tombstoned:
\* whichever id it was given named no object
C29_Witness ==
    /\ last.op = "inc_ref"
    /\ Len(objects) = 2
    /\ objects[1] = None
    /\ objects[2] = None

\* C30: in every heap state reachable by allocate, inc_ref, dec_ref and clear,
\* each occupied slot has refcount >= 1: no slot stays occupied with refcount
\* 0, and a refcount never underflows.
C30_OccupiedMeansHeld ==
    \A id \in AllocatedIds :
        objects[id + 1] # None => Refcount(objects, id) >= 1

\* slot 0 was given one inc_ref and one dec_ref and is back at refcount 1,
\* while slot 1 was taken by its only dec_ref
C30_Witness ==
    /\ Len(objects) = 2
    /\ hist.incs[0] = 1 /\ hist.decs[0] = 1
    /\ objects[1] # None /\ Refcount(objects, 0) = 1
    /\ hist.decs[1] = 1
    /\ objects[2] = None
====
